---- MODULE Spec2Model ----
(***************************************************************************)
(* A model of the composable rule engine (rule.py, coordinate_rule.py) and *)
(* of its max-n search (Rule.max_n, max_by_key).                           *)
(*                                                                         *)
(* The modelled game is a Sequencer (SimpleTurn) over two Aggregators      *)
(* (RuleSum), one per player.  Player A owns pieces 1 and 2, player B owns *)
(* piece 3.  Every piece is the chain built by                             *)
(*     piece(<capture decorator>, <pattern expander>, <Tile>).             *)
(*                                                                         *)
(* Python tuples are modelled by records:                                  *)
(*   (new_coords, old_coords)              [new, old]                      *)
(*   (sub_rule, (new, old), *to_capture)   [sub_rule, sub_move, captures]  *)
(*   (rule, sub_move)                      [rule, sub_move]                *)
(* A rule object is named by the number of its piece (or Aggregator).      *)
(***************************************************************************)
EXTENDS Integers, Sequences, FiniteSets, TLC

VARIABLES
    board,      \* the coordinates get_step stays on
    sequence,   \* SimpleTurn.sequence: the Aggregators, in turn order
    turn,       \* SimpleTurn.turn
    sub_rule,   \* SimpleTurn.sub_rule, the active sub-rule
    coords,     \* Tile.coords of the leaf of every piece
    top_rules,  \* the game state's registry of active top-level rules
    kind,       \* the class of every piece's capture decorator
    notified,   \* the calls of changed() made by the last operation
    err,        \* the last operation raised an exception
    trace,      \* play: the executes not yet undone, innermost first
    last,       \* play: the entry the last undo_move took off trace
    op,         \* the last operation: "init", "execute", "undo", ...
    nexec,      \* Sequencer alone: number of execute_move calls so far
    nundo,      \* Sequencer alone: number of undo_move calls so far
    turn0,      \* Sequencer alone: the index right after construction
    enumerated, \* pattern expansion: the list generate_legal_moves returned
    key,        \* selection: the key given to max_by_key / dictionary_max
    dictionaries, \* selection: the list given to max_by_key / dictionary_max
    current_max,  \* selection: what max_by_key and dictionary_max returned
    stack,      \* search: the frames of max_n, innermost first
    ret,        \* search: the value the last max_n call returned
    search,     \* search: the arguments of the outermost max_n call
    start,      \* search: the game state when the search started
    rules,      \* assembly: the fields of every rule object constructed so far
    expansion,  \* pattern expansion: the locals of a running generate_legal_moves
    call        \* a running execute_move / undo_move: the statements still to run

gameVars == <<board, sequence, turn, sub_rule, coords, top_rules, kind, notified, err>>
playVars == <<trace, last>>
turnVars == <<nexec, nundo, turn0>>
patternVars == <<enumerated>>
maxVars == <<key, dictionaries, current_max>>
searchVars == <<stack, ret, search, start>>
moreVars == <<rules, expansion, call>>

vars == <<gameVars, playVars, op, turnVars, patternVars, maxVars, searchVars, moreVars>>

-----------------------------------------------------------------------------
(* Bounds *)

BoardW == 3
MaxTrace == 2
MaxSeq == 3
MaxTurnArg == 4
MaxOps == 4
MaxLen == 3
MaxVal == 2
MaxDepth == 2

-----------------------------------------------------------------------------
(* The pieces of the modelled game *)

Players == {"A", "B"}
Pieces == {1, 2, 3}
Owner(p) == IF p = 3 THEN "B" ELSE "A"

\* RuleSum.all_subs / RuleSum.sub_rule of Aggregator a
AllSubs(a) == IF a = 1 THEN <<1, 2>> ELSE IF a = 2 THEN <<3>> ELSE <<>>
SumPlayer(a) == IF a = 1 THEN "A" ELSE "B"

\* CaptureRule.radar: the classes of the opposing player's pieces
Radar(p) == Players \ {Owner(p)}

GameBoard == (1..BoardW) \X {1}
ChessBoard == (1..8) \X (1..8)

NoMove == [pass |-> TRUE]
NoEntry == [level |-> "none"]
NoRet == [none |-> TRUE]

InSeq(x, s) == \E i \in 1..Len(s) : s[i] = x
Range(s) == {s[i] : i \in 1..Len(s)}

\* F of the value of v, with v computed once
With(v, F(_)) == CHOOSE y \in {F(x) : x \in {v}} : TRUE

RECURSIVE Flatten(_)
Flatten(ss) == IF ss = <<>> THEN <<>> ELSE Head(ss) \o Flatten(Tail(ss))

RECURSIVE Ascending(_)
Ascending(S) ==
    IF S = {} THEN <<>>
    ELSE LET m == CHOOSE x \in S : \A y \in S : x <= y
         IN <<m>> \o Ascending(S \ {m})

-----------------------------------------------------------------------------
(* The state the operations act on, as a record *)

Pos == [coords |-> coords, top_rules |-> top_rules, turn |-> turn,
        sub_rule |-> sub_rule, notified |-> <<>>, raised |-> FALSE]

\* an exception leaves the updates made so far in place
Raise(s) == [s EXCEPT !.raised = TRUE]

\* the listener callback every self.changed(move, undo=...) call reaches
changed(s, rule, move, undo) ==
    [s EXCEPT !.notified = Append(@, [rule |-> rule, move |-> move, undo |-> undo])]

\* the game state container
add_rules(s, ps) == [s EXCEPT !.top_rules = @ \cup Range(ps)]
remove_rules(s, ps) == [s EXCEPT !.top_rules = @ \ Range(ps)]
get_top_rules(s, radar) == Ascending({q \in s.top_rules : Owner(q) \in radar})

-----------------------------------------------------------------------------
(* max_by_key (evaluator.py) and dictionary_max (game.py) *)

\* faulty variant: a later dictionary replaces an equal one
RECURSIVE max_by_key_loop_mut(_, _, _, _)
max_by_key_loop_mut(k, dicts, i, cur) ==
    IF i > Len(dicts) THEN cur
    ELSE max_by_key_loop_mut(k, dicts, i + 1,
                             IF dicts[i][k] >= cur[k] THEN dicts[i] ELSE cur)

max_by_key_mut(k, dicts) == max_by_key_loop_mut(k, dicts, 1, dicts[1])

\* the for loop of max_by_key, from element i on, with current_max = cur
RECURSIVE max_by_key_loop(_, _, _, _)
max_by_key_loop(k, dicts, i, cur) ==
    IF i > Len(dicts) THEN cur
    ELSE max_by_key_loop(k, dicts, i + 1,
                         IF dicts[i][k] > cur[k] THEN dicts[i] ELSE cur)

max_by_key(k, dicts) == max_by_key_loop(k, dicts, 1, dicts[1])

RECURSIVE dictionary_max_loop(_, _, _, _)
dictionary_max_loop(k, dicts, i, cur) ==
    IF i > Len(dicts) THEN cur
    ELSE dictionary_max_loop(k, dicts, i + 1,
                             IF dicts[i][k] > cur[k] THEN dicts[i] ELSE cur)

dictionary_max(k, dicts) == dictionary_max_loop(k, dicts, 1, dicts[1])

-----------------------------------------------------------------------------
(* Tile *)

Tile_get_legal_moves(s, p) == <<>>

Tile_execute_move(s, p, move) ==
    changed([s EXCEPT !.coords[p] = move.new], <<"Tile", p>>, move, FALSE)

Tile_undo_move(s, p, move) ==
    changed([s EXCEPT !.coords[p] = move.old], <<"Tile", p>>, move, TRUE)

-----------------------------------------------------------------------------
(* CoordinateRule and PatternRule *)

CoordinateRule_execute_move(s, p, move) ==
    changed(Tile_execute_move(s, p, move), <<"PatternRule", p>>, move, FALSE)

CoordinateRule_undo_move(s, p, move) ==
    changed(Tile_undo_move(s, p, move), <<"PatternRule", p>>, move, TRUE)

\* get_step: the four axis-aligned unit neighbours that are on the board
Neighbours(c) == << <<c[1] - 1, c[2]>>, <<c[1] + 1, c[2]>>,
                    <<c[1], c[2] - 1>>, <<c[1], c[2] + 1>> >>
get_step(b, c) == SelectSeq(Neighbours(c), LAMBDA d : d \in b)

\* does_stop_on: the coordinate is occupied by an active piece
does_stop_on(s, c) == \E q \in s.top_rules : s.coords[q] = c
\* does_skip: no coordinate is skipped
does_skip(s, c) == FALSE

\* faulty variant: a skipped coordinate is not expanded either
RECURSIVE ExpandEdge_mut(_, _, _, _, _, _, _)
ExpandEdge_mut(cur, step, stops, skips, edge, i, acc) ==
    IF i > Len(edge) THEN acc
    ELSE LET c == edge[i]
             mv == [new |-> c, old |-> cur]
             legal1 == IF c \notin skips /\ ~InSeq(mv, acc.legal)
                       THEN Append(acc.legal, mv) ELSE acc.legal
             edge1 == IF c \notin stops /\ c \notin skips /\ ~InSeq(c, acc.checked)
                      THEN acc.new_edge \o step[c] ELSE acc.new_edge
             acc1 == [legal |-> legal1, new_edge |-> edge1,
                      checked |-> Append(acc.checked, c)]
         IN ExpandEdge_mut(cur, step, stops, skips, edge, i + 1, acc1)

\* faulty variant: a destination is listed every time it is met
RECURSIVE ExpandEdge_mut2(_, _, _, _, _, _, _)
ExpandEdge_mut2(cur, step, stops, skips, edge, i, acc) ==
    IF i > Len(edge) THEN acc
    ELSE LET c == edge[i]
             mv == [new |-> c, old |-> cur]
             legal1 == IF c \notin skips
                       THEN Append(acc.legal, mv) ELSE acc.legal
             edge1 == IF c \notin stops /\ ~InSeq(c, acc.checked)
                      THEN acc.new_edge \o step[c] ELSE acc.new_edge
             acc1 == [legal |-> legal1, new_edge |-> edge1,
                      checked |-> Append(acc.checked, c)]
         IN ExpandEdge_mut2(cur, step, stops, skips, edge, i + 1, acc1)

\* the body of the for loop of generate_legal_moves, from element i of edge on
RECURSIVE ExpandEdge(_, _, _, _, _, _, _)
ExpandEdge(cur, step, stops, skips, edge, i, acc) ==
    IF i > Len(edge) THEN acc
    ELSE LET c == edge[i]
             mv == [new |-> c, old |-> cur]
             legal1 == IF c \notin skips /\ ~InSeq(mv, acc.legal)
                       THEN Append(acc.legal, mv) ELSE acc.legal
             edge1 == IF c \notin stops /\ ~InSeq(c, acc.checked)
                      THEN acc.new_edge \o step[c] ELSE acc.new_edge
             acc1 == [legal |-> legal1, new_edge |-> edge1,
                      checked |-> Append(acc.checked, c)]
         \* (the test is always true: it has acc1 computed before the next element)
         IN IF Len(acc1.checked) > 0
            THEN ExpandEdge(cur, step, stops, skips, edge, i + 1, acc1)
            ELSE acc1

\* the while loop of generate_legal_moves
RECURSIVE ExpandWhile(_, _, _, _, _, _, _)
ExpandWhile(cur, step, stops, skips, edge, legal, checked) ==
    IF edge = <<>> THEN legal
    ELSE With(ExpandEdge(cur, step, stops, skips, edge, 1,
                         [legal |-> legal, new_edge |-> <<>>, checked |-> checked]),
              LAMBDA r : ExpandWhile(cur, step, stops, skips,
                                     r.new_edge, r.legal, r.checked))

\* faulty variant: expansion continues only from the coordinates that stop it
PatternRule_generate_legal_moves_mut(s, p) ==
    LET step == [c \in board |-> get_step(board, c)]
        stops == {c \in board : ~does_stop_on(s, c)}
        skips == {c \in board : does_skip(s, c)}
    IN ExpandWhile(s.coords[p], step, stops, skips, step[s.coords[p]],
                   Tile_get_legal_moves(s, p), <<>>)

PatternRule_generate_legal_moves(s, p) ==
    LET step == [c \in board |-> get_step(board, c)]
        stops == {c \in board : does_stop_on(s, c)}
        skips == {c \in board : does_skip(s, c)}
    IN ExpandWhile(s.coords[p], step, stops, skips, step[s.coords[p]],
                   Tile_get_legal_moves(s, p), <<>>)

-----------------------------------------------------------------------------
(* CaptureRule, SimpleCapture, NoCapture *)

\* faulty variant: the radar is matched against the square the move leaves
SimpleCapture_generate_legal_moves_mut(s, p) ==
    LET sub == PatternRule_generate_legal_moves(s, p)
        tops == get_top_rules(s, Radar(p))
    IN [i \in 1..Len(sub) |->
          [sub_rule |-> p,
           sub_move |-> [new |-> sub[i].new, old |-> sub[i].old],
           captures |-> SelectSeq(tops, LAMBDA q : s.coords[q] = sub[i].old)]]

SimpleCapture_generate_legal_moves(s, p) ==
    With(<<PatternRule_generate_legal_moves(s, p), get_top_rules(s, Radar(p))>>,
         LAMBDA v :
            LET sub == v[1]
                tops == v[2]
            IN [i \in 1..Len(sub) |->
                  [sub_rule |-> p,
                   sub_move |-> [new |-> sub[i].new, old |-> sub[i].old],
                   captures |-> SelectSeq(tops, LAMBDA q : s.coords[q] = sub[i].new)]])

NoCapture_generate_legal_moves(s, p) == PatternRule_generate_legal_moves(s, p)

CaptureRule_get_legal_moves(s, p) ==
    IF kind[p] = "SimpleCapture" THEN SimpleCapture_generate_legal_moves(s, p)
    ELSE NoCapture_generate_legal_moves(s, p)

\* sub_rule, sub_move, *pieces_to_capture = move: on a move (new, old) the
\* name sub_rule is bound to a coordinate tuple, which has no execute_move
Unpacks(move) == "sub_rule" \in DOMAIN move

CaptureRule_execute_move(s, p, move) ==
    IF ~Unpacks(move) THEN Raise(s)
    ELSE changed(CoordinateRule_execute_move(remove_rules(s, move.captures),
                                             move.sub_rule, move.sub_move),
                 <<"CaptureRule", p>>, move, FALSE)

\* faulty variant: the captured pieces are not put back
CaptureRule_undo_move_mut(s, p, move) ==
    IF ~Unpacks(move) THEN Raise(s)
    ELSE changed(CoordinateRule_undo_move(s, move.sub_rule, move.sub_move),
                 <<"CaptureRule", p>>, move, TRUE)

CaptureRule_undo_move(s, p, move) ==
    IF ~Unpacks(move) THEN Raise(s)
    ELSE changed(add_rules(CoordinateRule_undo_move(s, move.sub_rule, move.sub_move),
                           move.captures),
                 <<"CaptureRule", p>>, move, TRUE)

-----------------------------------------------------------------------------
(* RuleSum *)

\* faulty variant: every move is tagged with the first sibling
RuleSum_get_legal_moves_mut(s, a) ==
    Flatten([j \in 1..Len(AllSubs(a)) |->
               LET sub == CaptureRule_get_legal_moves(s, AllSubs(a)[j])
               IN [i \in 1..Len(sub) |-> [rule |-> AllSubs(a)[1], sub_move |-> sub[i]]]])

RuleSum_get_legal_moves(s, a) ==
    Flatten([j \in 1..Len(AllSubs(a)) |->
               LET rule == AllSubs(a)[j]
               IN With(CaptureRule_get_legal_moves(s, rule),
                       LAMBDA sub :
                          [i \in 1..Len(sub) |-> [rule |-> rule, sub_move |-> sub[i]]])])

RuleSum_execute_move(s, a, move) == CaptureRule_execute_move(s, move.rule, move.sub_move)

RuleSum_undo_move(s, a, move) == CaptureRule_undo_move(s, move.rule, move.sub_move)

-----------------------------------------------------------------------------
(* Attack detection *)

\* *pieces_to_capture of a move as does_attack_piece unpacks it: a move
\* (new, old) of a NoCapture piece unpacks with an empty rest
pieces_to_capture(move) == IF Unpacks(move) THEN move.captures ELSE <<>>

CaptureRule_does_attack_piece(s, p, q) ==
    LET legal == CaptureRule_get_legal_moves(s, p)
    IN \E i \in 1..Len(legal) : InSeq(q, pieces_to_capture(legal[i]))

\* faulty variant: pieces out of the registry count as attackers too
CaptureRule_is_attacked_mut(s, p) ==
    LET tops == Ascending({q \in Pieces : Owner(q) \in Radar(p)})
    IN \E i \in 1..Len(tops) : CaptureRule_does_attack_piece(s, tops[i], p)

CaptureRule_is_attacked(s, p) ==
    LET tops == get_top_rules(s, Radar(p))
    IN \E i \in 1..Len(tops) : CaptureRule_does_attack_piece(s, tops[i], p)

-----------------------------------------------------------------------------
(* What an enumeration leaves of the state it reads: each method's own
   assignments to rule fields and registry calls, composed along its calls *)

\* faulty variant: the scan leaves the piece on the last square it listed
PatternRule_generate_legal_moves_effect_mut(s, p) ==
    LET legal == PatternRule_generate_legal_moves(s, p)
    IN IF legal = <<>> THEN s ELSE [s EXCEPT !.coords[p] = legal[Len(legal)].new]

\* return []: nothing is assigned
Tile_generate_legal_moves_effect(s, p) == s

\* legal, edge, checked and new_edge are local lists; the list appended to is
\* the fresh one the sub-rule returned
PatternRule_generate_legal_moves_effect(s, p) == Tile_generate_legal_moves_effect(s, p)

\* to_capture and legal are local; get_top_rules is only read
SimpleCapture_generate_legal_moves_effect(s, p) == PatternRule_generate_legal_moves_effect(s, p)

NoCapture_generate_legal_moves_effect(s, p) == PatternRule_generate_legal_moves_effect(s, p)

CaptureRule_get_legal_moves_effect(s, p) ==
    IF kind[p] = "SimpleCapture" THEN SimpleCapture_generate_legal_moves_effect(s, p)
    ELSE NoCapture_generate_legal_moves_effect(s, p)

\* for rule in self.sub_rule: rule.get_legal_moves(), from sibling i on
RECURSIVE RuleSum_get_legal_moves_effect_loop(_, _, _)
RuleSum_get_legal_moves_effect_loop(s, subs, i) ==
    IF i > Len(subs) THEN s
    ELSE RuleSum_get_legal_moves_effect_loop(CaptureRule_get_legal_moves_effect(s, subs[i]),
                                             subs, i + 1)

RuleSum_get_legal_moves_effect(s, a) == RuleSum_get_legal_moves_effect_loop(s, AllSubs(a), 1)

SimpleTurn_get_legal_moves_effect(s) == RuleSum_get_legal_moves_effect(s, s.sub_rule)

CaptureRule_does_attack_piece_effect(s, p, q) == CaptureRule_get_legal_moves_effect(s, p)

\* for piece in get_top_rules(*radar): piece.does_attack_piece(self), up to
\* the first attacker found
RECURSIVE CaptureRule_is_attacked_effect_loop(_, _, _, _)
CaptureRule_is_attacked_effect_loop(s, p, tops, i) ==
    IF i > Len(tops) THEN s
    ELSE LET s1 == CaptureRule_does_attack_piece_effect(s, tops[i], p)
         IN IF CaptureRule_does_attack_piece(s, tops[i], p) THEN s1
            ELSE CaptureRule_is_attacked_effect_loop(s1, p, tops, i + 1)

CaptureRule_is_attacked_effect(s, p) ==
    CaptureRule_is_attacked_effect_loop(s, p, get_top_rules(s, Radar(p)), 1)

-----------------------------------------------------------------------------
(* SimpleTurn *)

\* faulty variant: the remainder takes the sign of the dividend
PyMod_mut(a, n) == IF a < 0 THEN 0 - ((0 - a) % n) ELSE a % n

\* Python's % takes the sign of the divisor
PyMod(a, n) == a - n * (a \div n)

SimpleTurn_init_turn(arg, seq) == PyMod(arg, Len(seq))
SimpleTurn_init_sub_rule(arg, seq) == seq[1]

SimpleTurn_get_legal_moves(s) ==
    With(RuleSum_get_legal_moves(s, s.sub_rule),
         LAMBDA sub : [i \in 1..Len(sub) |-> [rule |-> s.sub_rule, sub_move |-> sub[i]]])

SimpleTurn_execute_move(s, move) ==
    LET t == PyMod(s.turn + 1, Len(sequence))
        s1 == [s EXCEPT !.turn = t, !.sub_rule = sequence[t + 1]]
    IN IF move = NoMove THEN s1
       ELSE RuleSum_execute_move(s1, move.rule, move.sub_move)

\* faulty variant: undo_move advances the index as execute_move does
SimpleTurn_undo_move_mut(s, move) ==
    LET s1 == IF move = NoMove THEN s
              ELSE RuleSum_undo_move(s, move.rule, move.sub_move)
        t == PyMod(s1.turn + 1, Len(sequence))
    IN IF s1.raised THEN s1
       ELSE [s1 EXCEPT !.turn = t, !.sub_rule = sequence[t + 1]]

SimpleTurn_undo_move(s, move) ==
    LET s1 == IF move = NoMove THEN s
              ELSE RuleSum_undo_move(s, move.rule, move.sub_move)
        t == PyMod(s1.turn - 1, Len(sequence))
    IN IF s1.raised THEN s1
       ELSE [s1 EXCEPT !.turn = t, !.sub_rule = sequence[t + 1]]

-----------------------------------------------------------------------------
(* Play: execute_move and undo_move called on the rules of the game *)

Levels == {"SimpleTurn", "RuleSum", "CaptureRule", "PatternRule"}

\* r.get_legal_moves() for the rule r of class level and number id
LegalMoves(s, level, id) ==
    CASE level = "SimpleTurn" -> SimpleTurn_get_legal_moves(s)
      [] level = "RuleSum" -> RuleSum_get_legal_moves(s, id)
      [] level = "CaptureRule" -> CaptureRule_get_legal_moves(s, id)
      [] level = "PatternRule" -> PatternRule_generate_legal_moves(s, id)

ExecuteMove(s, level, id, move) ==
    CASE level = "SimpleTurn" -> SimpleTurn_execute_move(s, move)
      [] level = "RuleSum" -> RuleSum_execute_move(s, id, move)
      [] level = "CaptureRule" -> CaptureRule_execute_move(s, id, move)
      [] level = "PatternRule" -> CoordinateRule_execute_move(s, id, move)

UndoMove(s, level, id, move) ==
    CASE level = "SimpleTurn" -> SimpleTurn_undo_move(s, move)
      [] level = "RuleSum" -> RuleSum_undo_move(s, id, move)
      [] level = "CaptureRule" -> CaptureRule_undo_move(s, id, move)
      [] level = "PatternRule" -> CoordinateRule_undo_move(s, id, move)

Rules == ({"SimpleTurn"} \X {0}) \cup ({"RuleSum"} \X {1, 2})
           \cup ({"CaptureRule", "PatternRule"} \X Pieces)

Set(s) ==
    /\ coords' = s.coords
    /\ top_rules' = s.top_rules
    /\ turn' = s.turn
    /\ sub_rule' = s.sub_rule
    /\ notified' = s.notified
    /\ err' = s.raised

Snapshot == [coords |-> coords, top_rules |-> top_rules, turn |-> turn,
             sub_rule |-> sub_rule]

\* the game on the coordinates b: three pieces on three different squares
InitGameOn(b) ==
    /\ board = b
    /\ sequence = <<1, 2>>
    /\ \E arg \in 0..1 :
          /\ turn = SimpleTurn_init_turn(arg, sequence)
          /\ sub_rule = SimpleTurn_init_sub_rule(arg, sequence)
          /\ turn0 = turn
    /\ coords \in {c \in [Pieces -> b] : \A p, q \in Pieces : p # q => c[p] # c[q]}
    /\ top_rules = Pieces
    /\ kind \in {k \in [Pieces -> {"SimpleCapture", "NoCapture"}] :
                    k[1] = "SimpleCapture" /\ k[3] = "SimpleCapture"}
    /\ notified = <<>>
    /\ err = FALSE
    /\ nexec = 0
    /\ nundo = 0

InitGame == InitGameOn(GameBoard)

PlayIdle == trace = <<>> /\ last = NoEntry
PatternIdle == enumerated = <<>>
MaxIdle == key = "A" /\ dictionaries = <<>> /\ current_max = <<>>
SearchIdle == stack = <<>> /\ ret = NoRet /\ search = NoRet /\ start = NoRet
MoreIdle == rules = <<>> /\ expansion = NoRet /\ call = <<>>

Init ==
    /\ InitGame
    /\ PlayIdle /\ MoreIdle /\ PatternIdle /\ MaxIdle /\ SearchIdle
    /\ op = "init"

\* r.execute_move(m) for a move m of r.get_legal_moves()
ExecuteOn(r) ==
    LET legal == LegalMoves(Pos, r[1], r[2])
    IN \E i \in 1..Len(legal) :
         /\ Set(ExecuteMove(Pos, r[1], r[2], legal[i]))
         /\ trace' = <<[level |-> r[1], id |-> r[2], move |-> legal[i],
                        before |-> Snapshot]>> \o trace

\* the root rule plays a legal move, on top of the moves it has played
Execute ==
    /\ ~err
    /\ Len(trace) < MaxTrace
    /\ \A i \in 1..Len(trace) : trace[i].level = "SimpleTurn"
    /\ ExecuteOn(<<"SimpleTurn", 0>>)
    /\ last' = NoEntry
    /\ op' = "execute"
    /\ UNCHANGED <<board, sequence, kind, moreVars, turnVars, patternVars, maxVars, searchVars>>

\* an Aggregator, a capture decorator or a pattern expander is called directly
ExecuteInner ==
    /\ ~err
    /\ trace = <<>>
    /\ \E r \in Rules \ {<<"SimpleTurn", 0>>} : ExecuteOn(r)
    /\ last' = NoEntry
    /\ op' = "execute"
    /\ UNCHANGED <<board, sequence, kind, moreVars, turnVars, patternVars, maxVars, searchVars>>

\* the Sequencer's execute_move() with no move: a pass
ExecutePass ==
    /\ ~err
    /\ Len(trace) < MaxTrace
    /\ \A i \in 1..Len(trace) : trace[i].level = "SimpleTurn"
    /\ Set(SimpleTurn_execute_move(Pos, NoMove))
    /\ trace' = <<[level |-> "SimpleTurn", id |-> 0, move |-> NoMove,
                   before |-> Snapshot]>> \o trace
    /\ last' = NoEntry
    /\ op' = "execute"
    /\ UNCHANGED <<board, sequence, kind, moreVars, turnVars, patternVars, maxVars, searchVars>>

\* r.undo_move(m) for the innermost execute not yet undone
Undo ==
    /\ ~err
    /\ trace # <<>>
    /\ LET e == Head(trace)
       IN /\ Set(UndoMove(Pos, e.level, e.id, e.move))
          /\ last' = e
    /\ trace' = Tail(trace)
    /\ op' = "undo"
    /\ UNCHANGED <<board, sequence, kind, moreVars, turnVars, patternVars, maxVars, searchVars>>

LegalMovesEffect(s, level, id) ==
    CASE level = "SimpleTurn" -> SimpleTurn_get_legal_moves_effect(s)
      [] level = "RuleSum" -> RuleSum_get_legal_moves_effect(s, id)
      [] level = "CaptureRule" -> CaptureRule_get_legal_moves_effect(s, id)
      [] level = "PatternRule" -> PatternRule_generate_legal_moves_effect(s, id)

\* r.get_legal_moves() on any rule, at any point of the play (a query that
\* follows a query starts from the state the first one started from)
GetLegalMoves ==
    /\ ~err
    /\ op # "query"
    /\ \E r \in Rules :
          /\ Set(LegalMovesEffect(Pos, r[1], r[2]))
          /\ last' = [level |-> r[1], id |-> r[2], query |-> "get_legal_moves",
                      result |-> LegalMoves(Pos, r[1], r[2]), before |-> Snapshot]
    /\ op' = "query"
    /\ UNCHANGED <<board, sequence, kind, moreVars, trace, turnVars, patternVars, maxVars, searchVars>>

\* p.does_attack_piece(q) and p.is_attacked() on the capture decorators
Attacks ==
    /\ ~err
    /\ op # "query"
    /\ \E p \in Pieces :
          \/ \E q \in Pieces :
                /\ Set(CaptureRule_does_attack_piece_effect(Pos, p, q))
                /\ last' = [level |-> "CaptureRule", id |-> p, query |-> "does_attack_piece",
                            result |-> <<q, CaptureRule_does_attack_piece(Pos, p, q)>>,
                            before |-> Snapshot]
          \/ /\ Set(CaptureRule_is_attacked_effect(Pos, p))
             /\ last' = [level |-> "CaptureRule", id |-> p, query |-> "is_attacked",
                         result |-> <<p, CaptureRule_is_attacked(Pos, p)>>,
                         before |-> Snapshot]
    /\ op' = "query"
    /\ UNCHANGED <<board, sequence, kind, moreVars, trace, turnVars, patternVars, maxVars, searchVars>>

Next == Execute \/ ExecuteInner \/ ExecutePass \/ Undo

Spec == Init /\ [][Next]_vars

\* play with the enumerations called in between
NextQuery == Next \/ GetLegalMoves \/ Attacks

SpecQuery == Init /\ [][NextQuery]_vars

-----------------------------------------------------------------------------
(* The Sequencer alone: execute_move() and undo_move() with no move, in any order *)

InitTurn ==
    /\ \E n \in 1..MaxSeq, arg \in (0 - MaxTurnArg)..MaxTurnArg :
          /\ sequence = [i \in 1..n |-> i]
          /\ turn = SimpleTurn_init_turn(arg, sequence)
          /\ sub_rule = SimpleTurn_init_sub_rule(arg, sequence)
          /\ turn0 = turn
    /\ board = GameBoard
    /\ coords = [p \in Pieces |-> <<p, 1>>]
    /\ top_rules = Pieces
    /\ kind = [p \in Pieces |-> "SimpleCapture"]
    /\ notified = <<>>
    /\ err = FALSE
    /\ nexec = 0
    /\ nundo = 0
    /\ PlayIdle /\ MoreIdle /\ PatternIdle /\ MaxIdle /\ SearchIdle
    /\ op = "init"

TurnExecute ==
    /\ nexec < MaxOps
    /\ Set(SimpleTurn_execute_move(Pos, NoMove))
    /\ nexec' = nexec + 1
    /\ op' = "execute"
    /\ UNCHANGED <<board, sequence, kind, moreVars, playVars, nundo, turn0, patternVars, maxVars, searchVars>>

TurnUndo ==
    /\ nundo < MaxOps
    /\ Set(SimpleTurn_undo_move(Pos, NoMove))
    /\ nundo' = nundo + 1
    /\ op' = "undo"
    /\ UNCHANGED <<board, sequence, kind, moreVars, playVars, nexec, turn0, patternVars, maxVars, searchVars>>

NextTurn == TurnExecute \/ TurnUndo

SpecTurn == InitTurn /\ [][NextTurn]_vars

-----------------------------------------------------------------------------
(* Pattern expansion: one pattern piece alone on the 8x8 board *)

InitPattern ==
    /\ board = ChessBoard
    /\ sequence = <<1, 2>>
    /\ turn = 0
    /\ sub_rule = 1
    /\ turn0 = 0
    /\ \E c \in ChessBoard : coords = [p \in Pieces |-> c]
    /\ top_rules = {1}
    /\ kind = [p \in Pieces |-> "SimpleCapture"]
    /\ notified = <<>>
    /\ err = FALSE
    /\ nexec = 0
    /\ nundo = 0
    /\ PlayIdle /\ MoreIdle /\ PatternIdle /\ MaxIdle /\ SearchIdle
    /\ op = "init"

\* generate_legal_moves() of the pattern expander of piece 1
Enumerate ==
    /\ op = "init"
    /\ enumerated' = PatternRule_generate_legal_moves(Pos, 1)
    /\ op' = "enumerate"
    /\ UNCHANGED <<gameVars, moreVars, playVars, turnVars, maxVars, searchVars>>

NextPattern == Enumerate

SpecPattern == InitPattern /\ [][NextPattern]_vars

-----------------------------------------------------------------------------
(* Selection: max_by_key and dictionary_max on a list of utility vectors *)

Vectors == [Players -> 0..MaxVal]

\* the children of the depth-1 tree of the spec, in tenths
Example == << [A |-> 2, B |-> 8], [A |-> 6, B |-> 4], [A |-> 9, B |-> 1] >>

InitSelect ==
    /\ key \in Players
    /\ dictionaries \in UNION {[1..n -> Vectors] : n \in 1..MaxLen} \cup {Example}
    /\ current_max = <<>>
    /\ board = GameBoard
    /\ sequence = <<1, 2>>
    /\ turn = 0
    /\ sub_rule = 1
    /\ turn0 = 0
    /\ coords = [p \in Pieces |-> <<p, 1>>]
    /\ top_rules = Pieces
    /\ kind = [p \in Pieces |-> "SimpleCapture"]
    /\ notified = <<>>
    /\ err = FALSE
    /\ nexec = 0
    /\ nundo = 0
    /\ PlayIdle /\ MoreIdle /\ PatternIdle /\ SearchIdle
    /\ op = "init"

Select ==
    /\ op = "init"
    /\ current_max' = <<max_by_key(key, dictionaries), dictionary_max(key, dictionaries)>>
    /\ op' = "select"
    /\ UNCHANGED <<gameVars, moreVars, playVars, turnVars, patternVars, key, dictionaries, searchVars>>

NextSelect == Select

SpecSelect == InitSelect /\ [][NextSelect]_vars

-----------------------------------------------------------------------------
(* Utility *)

\* a piece's own evaluation of the position, for its player: its file, plus a
\* board's width for every opposing piece out of the registry; nothing once captured
Score(s, p) ==
    IF p \in s.top_rules
    THEN s.coords[p][1]
           + BoardW * Cardinality({q \in Pieces : Owner(q) # Owner(p) /\ q \notin s.top_rules})
    ELSE 0

PieceUtility(s, p) == [pl \in {Owner(p)} |-> Score(s, p)]

RuleSum_get_utility(s, a) ==
    max_by_key(SumPlayer(a), [j \in 1..Len(AllSubs(a)) |-> PieceUtility(s, AllSubs(a)[j])])

\* dict.update
Update(u, v) ==
    [pl \in DOMAIN u \cup DOMAIN v |-> IF pl \in DOMAIN v THEN v[pl] ELSE u[pl]]

RECURSIVE SimpleTurn_get_utility_loop(_, _, _)
SimpleTurn_get_utility_loop(s, i, utility) ==
    IF i > Len(sequence) THEN utility
    ELSE SimpleTurn_get_utility_loop(s, i + 1,
                                     Update(utility, RuleSum_get_utility(s, sequence[i])))

SimpleTurn_get_utility(s) == SimpleTurn_get_utility_loop(s, 1, [pl \in {} |-> 0])

-----------------------------------------------------------------------------
(* Rule.max_n on the root rule, one call frame per recursion level *)

\* the leaf of a piece carries the piece's player
TilePlayer(p) == Owner(p)

\* RuleSum.get_bottom_rule: the leaf of the last sibling
RuleSum_get_bottom_rule(a) == AllSubs(a)[Len(AllSubs(a))]

\* faulty variant: the player of the first Aggregator of the sequence at every node
max_n_player_mut(s) == TilePlayer(RuleSum_get_bottom_rule(sequence[1]))

\* the root rule has no player of its own: the bottom rule's player is used
max_n_player(s) == TilePlayer(RuleSum_get_bottom_rule(s.sub_rule))

\* random() and temp, in tenths; width 0 stands for None as well
Randoms == {2, 7}
Temps == {0 - 1, 5, 10}
Widths == {0, 1, 2}
Ks == {0, 1}

\* sample(legal, width): width moves of different positions of the list, in any order
Samples(legal, width) ==
    {[j \in 1..width |-> legal[f[j]]] :
        f \in {g \in [1..width -> 1..Len(legal)] :
                  \A a, b \in 1..width : a # b => g[a] # g[b]}}

\* faulty variant: equal keys come out in reverse list order
RECURSIVE SortedBy_mut(_, _, _)
SortedBy_mut(legal, keys, todo) ==
    IF todo = {} THEN <<>>
    ELSE LET i == CHOOSE a \in todo :
                     \A b \in todo : keys[a] < keys[b] \/ (keys[a] = keys[b] /\ a >= b)
         IN <<legal[i]>> \o SortedBy_mut(legal, keys, todo \ {i})

\* sorted(legal, key=evaluate): ascending by key, equal keys in list order
RECURSIVE SortedBy(_, _, _)
SortedBy(legal, keys, todo) ==
    IF todo = {} THEN <<>>
    ELSE LET i == CHOOSE a \in todo :
                     \A b \in todo : keys[a] < keys[b] \/ (keys[a] = keys[b] /\ a <= b)
         IN <<legal[i]>> \o SortedBy(legal, keys, todo \ {i})

Take(seq, n) == SubSeq(seq, 1, IF n < Len(seq) THEN n ELSE Len(seq))

Frame(depth, width, temp, k) ==
    [pc |-> "enter", depth |-> depth, width |-> width, temp |-> temp, k |-> k,
     player |-> "", legal |-> <<>>, i |-> 1, keys |-> <<>>, utilities |-> <<>>]

Prunes(f, legal) == f.width # 0 /\ f.width < Len(legal)

\* faulty variant: only the depth ends the descent
IsLeaf_mut(f) == f.depth = 0

\* if depth == 0 or not legal
IsLeaf(f) == f.depth = 0 \/ f.legal = <<>>

\* a file with its last square set apart: a piece there has no neighbour
GapBoard == ((1..(BoardW - 1)) \X {1}) \cup {<<BoardW + 1, 1>>}
\* squares with no neighbours at all: no piece has a move
IslandBoard == {<<2 * x - 1, 1>> : x \in 1..BoardW}
SearchBoards == {GameBoard, GapBoard, IslandBoard}

InitSearch ==
    /\ \E b \in SearchBoards : InitGameOn(b)
    /\ PlayIdle /\ MoreIdle /\ PatternIdle /\ MaxIdle
    /\ search \in {a \in [depth : 0..MaxDepth, width : Widths, temp : Temps, k : Ks] :
                      /\ a.width = 0 => a.temp = 10
                      /\ a.temp = 10 => a.k = 1}
    /\ stack = <<Frame(search.depth, search.width, search.temp, search.k)>>
    /\ ret = NoRet
    /\ start = Snapshot
    /\ op = "init"

Running == ~err /\ stack # <<>>

Idle == UNCHANGED <<board, sequence, kind, moreVars, turnVars, patternVars, maxVars, search, start>>

\* the root rule executes move m for the top frame
SearchExecute(m) ==
    /\ Set(SimpleTurn_execute_move(Pos, m))
    /\ trace' = <<[level |-> "SimpleTurn", id |-> 0, move |-> m, before |-> Snapshot,
                   depth |-> Len(stack)]>> \o trace
    /\ last' = NoEntry
    /\ op' = "execute"

\* the root rule undoes move m for the top frame
SearchUndo(m) ==
    /\ Set(SimpleTurn_undo_move(Pos, m))
    /\ last' = IF trace = <<>> THEN [level |-> "unpaired", undone |-> m, depth |-> Len(stack)]
               ELSE [level |-> "SimpleTurn", move |-> Head(trace).move,
                     before |-> Head(trace).before, depth |-> Head(trace).depth,
                     undone |-> m]
    /\ trace' = IF trace = <<>> THEN trace ELSE Tail(trace)
    /\ op' = "undo"

\* width is falsy or not below the number of legal moves: every move is kept
EnterPlain ==
    /\ Running
    /\ LET f == Head(stack)
           legal == SimpleTurn_get_legal_moves(Pos)
       IN /\ f.pc = "enter"
          /\ ~Prunes(f, legal)
          /\ stack' = <<[f EXCEPT !.pc = "body", !.player = max_n_player(Pos),
                                  !.legal = legal]>> \o Tail(stack)
    /\ op' = "enter"
    /\ UNCHANGED <<gameVars, moreVars, playVars, ret>>
    /\ Idle

\* temp < random(): the moves are to be ranked by a search of depth k
EnterHeuristic ==
    /\ Running
    /\ LET f == Head(stack)
           legal == SimpleTurn_get_legal_moves(Pos)
       IN /\ f.pc = "enter"
          /\ Prunes(f, legal)
          /\ \E r \in Randoms : f.temp < r
          /\ stack' = <<[f EXCEPT !.pc = "rank", !.player = max_n_player(Pos),
                                  !.legal = legal]>> \o Tail(stack)
    /\ op' = "enter"
    /\ UNCHANGED <<gameVars, moreVars, playVars, ret>>
    /\ Idle

\* otherwise: a random sample of width moves
EnterRandom ==
    /\ Running
    /\ LET f == Head(stack)
           legal == SimpleTurn_get_legal_moves(Pos)
       IN /\ f.pc = "enter"
          /\ Prunes(f, legal)
          /\ \E r \in Randoms : ~(f.temp < r)
          /\ \E smp \in Samples(legal, f.width) :
                stack' = <<[f EXCEPT !.pc = "body", !.player = max_n_player(Pos),
                                     !.legal = smp]>> \o Tail(stack)
    /\ op' = "enter"
    /\ UNCHANGED <<gameVars, moreVars, playVars, ret>>
    /\ Idle

\* evaluate(m): execute m, then self.max_n(k)
RankExecute ==
    /\ Running
    /\ LET f == Head(stack)
           e == SimpleTurn_execute_move(Pos, f.legal[f.i])
       IN /\ f.pc = "rank"
          /\ SearchExecute(f.legal[f.i])
          /\ stack' = IF e.raised THEN stack
                      ELSE <<Frame(f.k, 0, 10, 1), [f EXCEPT !.pc = "rank_wait"]>>
                             \o Tail(stack)
    /\ UNCHANGED ret
    /\ Idle

\* evaluate(m): the key is the player's value, m is undone; after the last
\* move the list is sorted and cut to width
RankUndo ==
    /\ Running
    /\ LET f == Head(stack)
           keys == Append(f.keys, ret[f.player])
           u == SimpleTurn_undo_move(Pos, f.legal[f.i])
       IN /\ f.pc = "rank_wait"
          /\ ret # NoRet
          /\ SearchUndo(f.legal[f.i])
          /\ stack' = IF u.raised THEN stack
                      ELSE IF f.i < Len(f.legal)
                      THEN <<[f EXCEPT !.pc = "rank", !.i = @ + 1, !.keys = keys]>>
                             \o Tail(stack)
                      ELSE <<[f EXCEPT !.pc = "body", !.i = 1, !.keys = keys,
                                !.legal = Take(SortedBy(f.legal, keys, 1..Len(f.legal)),
                                               f.width)]>>
                             \o Tail(stack)
    /\ ret' = NoRet
    /\ Idle

\* depth == 0 or not legal: the position's utility
ReturnUtility ==
    /\ Running
    /\ LET f == Head(stack)
       IN /\ f.pc = "body"
          /\ IsLeaf(f)
    /\ ret' = SimpleTurn_get_utility(Pos)
    /\ stack' = Tail(stack)
    /\ op' = "return"
    /\ UNCHANGED <<gameVars, moreVars, playVars>>
    /\ Idle

\* the loop body: execute the move, then self.max_n(depth - 1, width, temp)
LoopExecute ==
    /\ Running
    /\ LET f == Head(stack)
           e == SimpleTurn_execute_move(Pos, f.legal[f.i])
       IN /\ f.pc = "body"
          /\ ~IsLeaf(f)
          /\ f.i <= Len(f.legal)
          /\ SearchExecute(f.legal[f.i])
          /\ stack' = IF e.raised THEN stack
                      ELSE <<Frame(f.depth - 1, f.width, f.temp, 1),
                             [f EXCEPT !.pc = "loop_wait"]>> \o Tail(stack)
    /\ UNCHANGED ret
    /\ Idle

\* the loop body: the child's value is appended, the move is undone
LoopUndo ==
    /\ Running
    /\ LET f == Head(stack)
           u == SimpleTurn_undo_move(Pos, f.legal[f.i])
       IN /\ f.pc = "loop_wait"
          /\ ret # NoRet
          /\ SearchUndo(f.legal[f.i])
          /\ stack' = IF u.raised THEN stack
                      ELSE <<[f EXCEPT !.pc = "body", !.i = @ + 1,
                                !.utilities = Append(@, ret)]>> \o Tail(stack)
    /\ ret' = NoRet
    /\ Idle

\* after the loop: the child value greatest for this node's player
ReturnMax ==
    /\ Running
    /\ LET f == Head(stack)
       IN /\ f.pc = "body"
          /\ ~IsLeaf(f)
          /\ f.i > Len(f.legal)
          /\ IF f.utilities = <<>>
             THEN \* max_by_key: dictionaries[0] of an empty list raises IndexError
                  /\ err' = TRUE
                  /\ UNCHANGED <<turn, sub_rule, coords, top_rules, notified, stack, ret>>
             ELSE /\ ret' = max_by_key(f.player, f.utilities)
                  /\ stack' = Tail(stack)
                  /\ UNCHANGED <<turn, sub_rule, coords, top_rules, notified, err>>
    /\ op' = "return"
    /\ UNCHANGED playVars
    /\ Idle

NextSearch ==
    \/ EnterPlain \/ EnterHeuristic \/ EnterRandom
    \/ RankExecute \/ RankUndo
    \/ ReturnUtility \/ LoopExecute \/ LoopUndo \/ ReturnMax

SpecSearch == InitSearch /\ [][NextSearch]_vars

-----------------------------------------------------------------------------
(* n_max (game.py): the search as one loop over parallel stacks, on the same
   game through the Game interface *)

\* the Game interface on the root rule
Game_legal_moves(s) == SimpleTurn_get_legal_moves(s)
Game_make_move(s, move) == SimpleTurn_execute_move(s, move)
Game_revert(s, move) == SimpleTurn_undo_move(s, move)
Game_utility(s) == SimpleTurn_get_utility(s)
GameState_player_to_move(s) == SumPlayer(s.sub_rule)

Last(seq) == seq[Len(seq)]
Front(seq) == SubSeq(seq, 1, Len(seq) - 1)

\* the game state n_max is given has the player of its turn index to move
InitNMax ==
    /\ \E b \in SearchBoards : InitGameOn(b)
    /\ sub_rule = sequence[turn + 1]
    /\ PlayIdle /\ MoreIdle /\ PatternIdle /\ MaxIdle
    /\ search \in [depth : 0..MaxDepth, width : {0}, temp : {10}, k : {1}]
    /\ stack = <<[pc |-> "n_max", max_depth |-> search.depth, depth |-> 0,
                  move_tree |-> <<Game_legal_moves(Pos)>>, utility_tree |-> << <<>> >>]>>
    /\ ret = NoRet
    /\ start = Snapshot
    /\ op = "init"

\* if depth != max_depth and move_tree[-1]
GoesDown(f) == f.depth # f.max_depth /\ Last(f.move_tree) # <<>>

\* faulty variant: the utility is recorded only where no move is legal
RecordsUtility_mut(s, f) == Game_legal_moves(s) = <<>>

\* if (not game.legal_moves(game_state)) or (depth == max_depth)
RecordsUtility(s, f) == Game_legal_moves(s) = <<>> \/ f.depth = f.max_depth

\* utility_tree after the utility of the position is added where it is due
WithUtility(s, f) ==
    IF RecordsUtility(s, f)
    THEN Front(f.utility_tree) \o <<Append(Last(f.utility_tree), Game_utility(s))>>
    ELSE f.utility_tree

\* go down: the first unexplored move is made
NMaxDown ==
    /\ Running
    /\ LET f == Head(stack)
           move == Head(Last(f.move_tree))
           e == Game_make_move(Pos, move)
       IN /\ f.pc = "n_max"
          /\ GoesDown(f)
          /\ Set(e)
          /\ trace' = <<[level |-> "SimpleTurn", id |-> 0, move |-> move,
                         before |-> Snapshot, depth |-> f.depth]>> \o trace
          /\ stack' = IF e.raised THEN stack
                      ELSE <<[f EXCEPT !.move_tree = Append(Front(@) \o <<Tail(Last(@))>>,
                                                            Game_legal_moves(e)),
                                       !.utility_tree = Append(@, <<>>),
                                       !.depth = @ + 1]>>
    /\ last' = NoEntry
    /\ op' = "down"
    /\ UNCHANGED ret
    /\ Idle

\* go up: the position's value goes to the parent's list, the last move is reverted
NMaxUp ==
    /\ Running
    /\ LET f == Head(stack)
           ut == WithUtility(Pos, f)
           player_to_maximize == GameState_player_to_move(Pos)
       IN /\ f.pc = "n_max"
          /\ ~GoesDown(f)
          /\ f.depth # 0
          /\ IF trace = <<>> \/ Last(ut) = <<>>
             THEN \* nothing to revert, or dictionary_max of an empty list
                  /\ err' = TRUE
                  /\ UNCHANGED <<turn, sub_rule, coords, top_rules, notified, stack,
                                 trace, last>>
             ELSE LET value == dictionary_max(player_to_maximize, Last(ut))
                  IN /\ Set(Game_revert(Pos, Head(trace).move))
                     /\ trace' = Tail(trace)
                     /\ last' = [level |-> "n_max", node |-> Snapshot, value |-> value,
                                 depth |-> f.depth, move_tree |-> Len(f.move_tree),
                                 utility_tree |-> Len(ut)]
                     /\ stack' = <<[f EXCEPT
                                      !.utility_tree = Front(Front(ut)) \o
                                          <<Append(ut[Len(ut) - 1], value)>>,
                                      !.move_tree = Front(@),
                                      !.depth = @ - 1]>>
    /\ op' = "up"
    /\ UNCHANGED ret
    /\ Idle

\* at the top with nothing left to explore: the root's value is returned
NMaxDone ==
    /\ Running
    /\ LET f == Head(stack)
           ut == WithUtility(Pos, f)
           player_to_maximize == GameState_player_to_move(Pos)
       IN /\ f.pc = "n_max"
          /\ ~GoesDown(f)
          /\ f.depth = 0
          /\ IF Last(ut) = <<>>
             THEN /\ err' = TRUE
                  /\ UNCHANGED <<stack, ret, last>>
             ELSE /\ ret' = dictionary_max(player_to_maximize, Last(ut))
                  /\ stack' = <<>>
                  /\ last' = [level |-> "n_max", node |-> Snapshot, value |-> ret',
                              depth |-> f.depth, move_tree |-> Len(f.move_tree),
                              utility_tree |-> Len(ut)]
                  /\ err' = err
    /\ op' = "done"
    /\ UNCHANGED <<turn, sub_rule, coords, top_rules, notified, trace>>
    /\ Idle

NextNMax == NMaxDown \/ NMaxUp \/ NMaxDone

SpecNMax == InitNMax /\ [][NextNMax]_vars

\* both forms of the search
NextSearches == NextSearch \/ NextNMax

SpecSearches == (InitSearch \/ InitNMax) /\ [][NextSearches]_vars

-----------------------------------------------------------------------------
(* Assembly: rule objects, piece() and the structural accessors.  A rule
   object is named by its position in rules; sub_rule is <<>> for None, <<x>>
   for the rule x, and the tuple of siblings for a RuleSum *)

MaxRules == 4

Classes == {"Tile", "PatternRule", "SimpleCapture", "NoCapture"}
NoPlayer == "None"

\* Rule.__init__: the fields of a new rule object
Rule_init(class, player, sub) == [class |-> class, player |-> player, sub_rule |-> sub]

\* RuleSum.__init__(game_state, player, *sub_rules)
RuleSum_init(player, sub_rules) == Rule_init("RuleSum", player, sub_rules)

\* the capabilities a rule of a class declares it needs: the keys of requirements()
requirements(class) ==
    IF class = "Tile" THEN {"get_coords"}
    ELSE IF class \in {"SimpleCapture", "NoCapture"} THEN {"does_attack_piece"}
    ELSE {}

\* which of these capabilities the classes define as methods
Provides(class) ==
    IF class \in {"Tile", "PatternRule"} THEN {"get_coords"}
    ELSE IF class \in {"SimpleCapture", "NoCapture"} THEN {"get_coords", "does_attack_piece"}
    ELSE {}

\* the accessors recurse once per link: n is the number of calls the
\* interpreter still has room for, and 0 stands for a call that never returns
CallDepth(rs) == Len(rs) + 1

\* faulty variant: an Aggregator resolves through its first sibling
RECURSIVE get_bottom_rule_mut(_, _, _)
get_bottom_rule_mut(rs, r, n) ==
    IF n = 0 THEN 0
    ELSE IF rs[r].sub_rule # <<>>
         THEN get_bottom_rule_mut(rs, rs[r].sub_rule[1], n - 1)
         ELSE r

\* Rule.get_bottom_rule and RuleSum.get_bottom_rule
RECURSIVE get_bottom_rule(_, _, _)
get_bottom_rule(rs, r, n) ==
    IF n = 0 THEN 0
    ELSE IF rs[r].sub_rule # <<>>
         THEN get_bottom_rule(rs, rs[r].sub_rule[Len(rs[r].sub_rule)], n - 1)
         ELSE r

\* Rule.get_piece and RuleSum.get_piece
RECURSIVE get_piece(_, _, _)
get_piece(rs, r, n) ==
    IF n = 0 THEN <<0>>
    ELSE <<r>> \o Flatten([i \in 1..Len(rs[r].sub_rule) |->
                             get_piece(rs, rs[r].sub_rule[i], n - 1)])

\* the for loop of piece(*rules): every rule but the last gets its successor
\* as sub_rule and the first rule's player
piece(rs, args) ==
    [r \in DOMAIN rs |->
        IF \E i \in 1..(Len(args) - 1) : args[i] = r
        THEN LET i == CHOOSE i \in 1..(Len(args) - 1) :
                         args[i] = r /\ \A j \in (i + 1)..(Len(args) - 1) : args[j] # r
             IN [rs[r] EXCEPT !.sub_rule = <<args[i + 1]>>,
                              !.player = rs[args[1]].player]
        ELSE rs[r]]

\* a rule object no piece() call and no Aggregator has used yet
Fresh_rule(r) ==
    /\ rules[r].class # "RuleSum"
    /\ rules[r].sub_rule = <<>>
    /\ r \notin top_rules
    /\ \A q \in DOMAIN rules : ~InSeq(r, rules[q].sub_rule)

\* the argument lists of piece(): one to three different unused rules
PieceArgs ==
    LET F == {r \in DOMAIN rules : Fresh_rule(r)}
    IN {a \in UNION {[1..n -> F] : n \in 1..3} :
          \A i, j \in DOMAIN a : i # j => a[i] # a[j]}

\* the sibling lists of an Aggregator: up to two assembled pieces
SumArgs ==
    LET H == {r \in top_rules : rules[r].class # "RuleSum"}
    IN UNION {[1..n -> H] : n \in 0..2}

InitPiece ==
    /\ board = GameBoard
    /\ sequence = <<1, 2>>
    /\ turn = 0
    /\ sub_rule = 1
    /\ turn0 = 0
    /\ coords = [p \in Pieces |-> <<p, 1>>]
    /\ top_rules = {}
    /\ kind = [p \in Pieces |-> "SimpleCapture"]
    /\ notified = <<>>
    /\ err = FALSE
    /\ nexec = 0
    /\ nundo = 0
    /\ PlayIdle /\ MoreIdle /\ PatternIdle /\ MaxIdle /\ SearchIdle
    /\ op = "init"

AsmIdle == UNCHANGED <<board, sequence, turn, sub_rule, coords, kind, notified, err, trace,
                       turnVars, patternVars, maxVars, searchVars, expansion, call>>

\* a rule of one of the piece classes is constructed, with the game's state
Construct ==
    /\ Len(rules) < MaxRules
    /\ \E class \in Classes, player \in {NoPlayer, "A"} :
          rules' = Append(rules, Rule_init(class, player, <<>>))
    /\ last' = NoEntry
    /\ op' = "construct"
    /\ UNCHANGED top_rules /\ AsmIdle

\* RuleSum(game_state, player, *pieces)
ConstructSum ==
    /\ Len(rules) < MaxRules
    /\ \E subs \in SumArgs :
          rules' = Append(rules, RuleSum_init("A", subs))
    /\ last' = NoEntry
    /\ op' = "construct"
    /\ UNCHANGED top_rules /\ AsmIdle

\* piece(*args): the links, then game_state.add_pieces(rules[0])
Piece ==
    /\ \E args \in PieceArgs :
          /\ rules' = piece(rules, args)
          /\ top_rules' = top_rules \cup {args[1]}
          /\ last' = [level |-> "piece", args |-> args]
    /\ op' = "piece"
    /\ AsmIdle

NextPiece == Construct \/ ConstructSum \/ Piece

SpecPiece == InitPiece /\ [][NextPiece]_vars

-----------------------------------------------------------------------------
(* execute_move and undo_move statement by statement: the body of a call is
   the list of the statements it runs, those of the calls it makes included *)

Changed(rule, move, undo) == [do |-> "changed", rule |-> rule, move |-> move, undo |-> undo]

Tile_execute_move_body(p, move) ==
    << [do |-> "coords", piece |-> p, to |-> move.new],
       Changed(<<"Tile", p>>, move, FALSE) >>

Tile_undo_move_body(p, move) ==
    << [do |-> "coords", piece |-> p, to |-> move.old],
       Changed(<<"Tile", p>>, move, TRUE) >>

CoordinateRule_execute_move_body(p, move) ==
    Tile_execute_move_body(p, move) \o << Changed(<<"PatternRule", p>>, move, FALSE) >>

CoordinateRule_undo_move_body(p, move) ==
    Tile_undo_move_body(p, move) \o << Changed(<<"PatternRule", p>>, move, TRUE) >>

\* [piece.game_state.remove_rules(piece) for piece in pieces_to_capture]
RemoveAll(ps) == [i \in 1..Len(ps) |-> [do |-> "remove_rules", piece |-> ps[i]]]
\* [piece.game_state.add_rules(piece) for piece in pieces_to_capture]
AddAll(ps) == [i \in 1..Len(ps) |-> [do |-> "add_rules", piece |-> ps[i]]]

\* faulty variant: the sub-rule moves before the captured pieces are removed
CaptureRule_execute_move_body_mut(p, move) ==
    IF ~Unpacks(move) THEN << [do |-> "raise"] >>
    ELSE CoordinateRule_execute_move_body(move.sub_rule, move.sub_move)
         \o RemoveAll(move.captures)
         \o << Changed(<<"CaptureRule", p>>, move, FALSE) >>

\* on a move (new, old) the capture list is empty and the call of
\* sub_rule.execute_move, on a coordinate tuple, raises
CaptureRule_execute_move_body(p, move) ==
    IF ~Unpacks(move) THEN << [do |-> "raise"] >>
    ELSE RemoveAll(move.captures)
         \o CoordinateRule_execute_move_body(move.sub_rule, move.sub_move)
         \o << Changed(<<"CaptureRule", p>>, move, FALSE) >>

CaptureRule_undo_move_body(p, move) ==
    IF ~Unpacks(move) THEN << [do |-> "raise"] >>
    ELSE CoordinateRule_undo_move_body(move.sub_rule, move.sub_move)
         \o AddAll(move.captures)
         \o << Changed(<<"CaptureRule", p>>, move, TRUE) >>

RuleSum_execute_move_body(a, move) == CaptureRule_execute_move_body(move.rule, move.sub_move)

RuleSum_undo_move_body(a, move) == CaptureRule_undo_move_body(move.rule, move.sub_move)

\* faulty variant: the sub-move is applied before the index advances
SimpleTurn_execute_move_body_mut(move) ==
    (IF move = NoMove THEN <<>> ELSE RuleSum_execute_move_body(move.rule, move.sub_move))
    \o << [do |-> "turn", by |-> 1] >>

SimpleTurn_execute_move_body(move) ==
    << [do |-> "turn", by |-> 1] >>
    \o (IF move = NoMove THEN <<>> ELSE RuleSum_execute_move_body(move.rule, move.sub_move))

SimpleTurn_undo_move_body(move) ==
    (IF move = NoMove THEN <<>> ELSE RuleSum_undo_move_body(move.rule, move.sub_move))
    \o << [do |-> "turn", by |-> 0 - 1] >>

\* one statement, on the state s
RunStmt(s, st) ==
    CASE st.do = "turn" ->
            LET t == PyMod(s.turn + st.by, Len(sequence))
            IN [s EXCEPT !.turn = t, !.sub_rule = sequence[t + 1]]
      [] st.do = "remove_rules" -> remove_rules(s, <<st.piece>>)
      [] st.do = "add_rules" -> add_rules(s, <<st.piece>>)
      [] st.do = "coords" -> [s EXCEPT !.coords[st.piece] = st.to]
      [] st.do = "changed" -> changed(s, st.rule, st.move, st.undo)
      [] st.do = "raise" -> Raise(s)

\* the state a running call acts on: the notifications made so far are kept
PosNow == [Pos EXCEPT !.notified = notified]

InitSteps ==
    /\ InitGame
    /\ PlayIdle /\ MoreIdle /\ PatternIdle /\ MaxIdle /\ SearchIdle
    /\ op = "init"

StepsIdle == UNCHANGED <<board, sequence, kind, turnVars, patternVars, maxVars, searchVars,
                         rules, expansion>>

\* the root rule's execute_move is called, with a legal move or with no move
CallExecute ==
    /\ call = <<>> /\ ~err
    /\ Len(trace) < MaxTrace
    /\ \E move \in Range(SimpleTurn_get_legal_moves(Pos)) \cup {NoMove} :
          /\ call' = SimpleTurn_execute_move_body(move)
          /\ last' = [level |-> "SimpleTurn", method |-> "execute_move", move |-> move,
                      before |-> Snapshot]
          /\ trace' = <<[level |-> "SimpleTurn", id |-> 0, move |-> move,
                         before |-> Snapshot]>> \o trace
    /\ notified' = <<>>
    /\ op' = "call"
    /\ UNCHANGED <<turn, sub_rule, coords, top_rules, err>> /\ StepsIdle

\* the root rule's undo_move is called with the last move executed
CallUndo ==
    /\ call = <<>> /\ ~err
    /\ trace # <<>>
    /\ call' = SimpleTurn_undo_move_body(Head(trace).move)
    /\ last' = [level |-> "SimpleTurn", method |-> "undo_move", move |-> Head(trace).move,
                before |-> Snapshot]
    /\ trace' = Tail(trace)
    /\ notified' = <<>>
    /\ op' = "call"
    /\ UNCHANGED <<turn, sub_rule, coords, top_rules, err>> /\ StepsIdle

\* the running call runs its next statement; an exception ends it
Step ==
    /\ call # <<>>
    /\ LET s == RunStmt(PosNow, Head(call))
       IN /\ Set(s)
          /\ call' = IF s.raised THEN <<>> ELSE Tail(call)
    /\ op' = "step"
    /\ UNCHANGED <<trace, last>> /\ StepsIdle

NextSteps == CallExecute \/ CallUndo \/ Step

SpecSteps == InitSteps /\ [][NextSteps]_vars

-----------------------------------------------------------------------------
(* generate_legal_moves of a pattern expander iteration by iteration, for any
   step function, does_stop_on and does_skip over a few coordinates *)

MaxCoord == 3
MaxStep == 2

Coordinates == 1..MaxCoord

\* what get_step can return for one coordinate: up to MaxStep coordinates
StepLists == UNION {[1..n -> Coordinates] : n \in 0..MaxStep}

\* the locals after `edge = self.get_step(self.get_coords())` and `checked = []`;
\* added lists the coordinates whose get_step was appended to new_edge
InitExpand ==
    /\ board = GameBoard
    /\ sequence = <<1, 2>>
    /\ turn = 0
    /\ sub_rule = 1
    /\ turn0 = 0
    /\ coords = [p \in Pieces |-> <<p, 1>>]
    /\ top_rules = Pieces
    /\ kind = [p \in Pieces |-> "SimpleCapture"]
    /\ notified = <<>>
    /\ err = FALSE
    /\ nexec = 0
    /\ nundo = 0
    /\ PlayIdle /\ PatternIdle /\ MaxIdle /\ SearchIdle
    /\ rules = <<>> /\ call = <<>>
    /\ \E step \in [Coordinates -> StepLists], stops, skips \in SUBSET Coordinates :
          expansion = [cur |-> 1, step |-> step, stops |-> stops, skips |-> skips,
                       pc |-> "while", edge |-> step[1], i |-> 0, new_edge |-> <<>>,
                       legal |-> <<>>, checked |-> <<>>, added |-> <<>>]
    /\ op = "init"

ExpandIdle == UNCHANGED <<gameVars, playVars, turnVars, maxVars, searchVars, rules, call>>

\* while edge: new_edge = []
ExpandWhileTrue ==
    /\ expansion.pc = "while" /\ expansion.edge # <<>>
    /\ expansion' = [expansion EXCEPT !.pc = "for", !.i = 1, !.new_edge = <<>>]
    /\ op' = "while"
    /\ UNCHANGED enumerated /\ ExpandIdle

\* one pass of the body of `for coords in edge`
ExpandFor ==
    /\ expansion.pc = "for" /\ expansion.i <= Len(expansion.edge)
    /\ LET x == expansion
           c == x.edge[x.i]
           r == ExpandEdge(x.cur, x.step, x.stops, x.skips, <<c>>, 1,
                           [legal |-> x.legal, new_edge |-> x.new_edge,
                            checked |-> x.checked])
       IN expansion' = [x EXCEPT !.i = @ + 1,
                                 !.legal = r.legal,
                                 !.new_edge = r.new_edge,
                                 !.checked = r.checked,
                                 !.added = IF r.new_edge # x.new_edge
                                           THEN Append(@, c) ELSE @]
    /\ op' = "for"
    /\ UNCHANGED enumerated /\ ExpandIdle

\* edge = new_edge
ExpandForEnd ==
    /\ expansion.pc = "for" /\ expansion.i > Len(expansion.edge)
    /\ expansion' = [expansion EXCEPT !.pc = "while", !.edge = expansion.new_edge]
    /\ op' = "edge"
    /\ UNCHANGED enumerated /\ ExpandIdle

\* return legal
ExpandReturn ==
    /\ expansion.pc = "while" /\ expansion.edge = <<>>
    /\ expansion' = [expansion EXCEPT !.pc = "done"]
    /\ enumerated' = expansion.legal
    /\ op' = "enumerate"
    /\ ExpandIdle

NextExpand == ExpandWhileTrue \/ ExpandFor \/ ExpandForEnd \/ ExpandReturn

SpecExpand == InitExpand /\ [][NextExpand]_vars

\* a call that has started keeps running
SpecExpandFair == SpecExpand /\ WF_vars(NextExpand)

-----------------------------------------------------------------------------
(* Properties of play *)

\* the capture decorator's move inside the move m of a rule of class level
CaptureMoveOf(level, m) ==
    CASE level = "CaptureRule" -> m
      [] level = "RuleSum" -> m.sub_move
      [] level = "SimpleTurn" -> IF m = NoMove THEN NoMove ELSE m.sub_move.sub_move
      [] OTHER -> NoMove

Captures(level, m) ==
    LET c == CaptureMoveOf(level, m)
    IN IF "captures" \in DOMAIN c THEN c.captures ELSE <<>>

\* C1 (as stated): r.execute_move(m); r.undo_move(m), for m of r.get_legal_moves(),
\* runs without an exception and leaves r.get_legal_moves() set-equal to what it
\* was and every leaf coordinate equal to its value before the execute.
C1_Reversible ==
    /\ ~err
    /\ (op = "undo" /\ last.move # NoMove) =>
          /\ coords = last.before.coords
          /\ Range(LegalMoves(Pos, last.level, last.id))
               = Range(LegalMoves(last.before, last.level, last.id))

\* C4: every move the capturing variant enumerates carries exactly the active
\* rules matched by the radar whose leaf coordinate is the move's destination,
\* each once.
C4_CaptureList ==
    \A p \in Pieces :
        kind[p] = "SimpleCapture" =>
            LET legal == CaptureRule_get_legal_moves(Pos, p)
            IN \A i \in 1..Len(legal) :
                 /\ Range(legal[i].captures)
                      = {q \in top_rules : /\ Owner(q) \in Radar(p)
                                           /\ coords[q] = legal[i].sub_move.new}
                 /\ Len(legal[i].captures) = Cardinality(Range(legal[i].captures))

\* a move onto a square held by exactly one opposing piece lists that piece
C4_Witness ==
    \E p \in Pieces :
        /\ kind[p] = "SimpleCapture"
        /\ LET legal == CaptureRule_get_legal_moves(Pos, p)
           IN \E i \in 1..Len(legal) : \E q \in top_rules :
                /\ Owner(q) # Owner(p)
                /\ {x \in Pieces : Owner(x) # Owner(p) /\ coords[x] = legal[i].sub_move.new} = {q}
                /\ legal[i].captures = <<q>>

\* C5: execute_move of a capture-bearing move takes exactly the move's captured
\* pieces out of the registry; the matching undo_move puts every one of them
\* back and the registry is again the one before the execute.
C5_Registry ==
    /\ (op = "execute" /\ ~err /\ trace # <<>>) =>
          LET e == Head(trace)
          IN Captures(e.level, e.move) # <<>> =>
                top_rules = e.before.top_rules \ Range(Captures(e.level, e.move))
    /\ (op = "undo" /\ ~err) =>
          (Captures(last.level, last.move) # <<>> =>
                /\ Range(Captures(last.level, last.move)) \subseteq top_rules
                /\ top_rules = last.before.top_rules)

C5_Witness ==
    /\ op = "undo"
    /\ ~err
    /\ Captures(last.level, last.move) # <<>>
    /\ Range(Captures(last.level, last.move)) \subseteq last.before.top_rules

\* C10 (as stated): every execute_move and undo_move that completes on a rule
\* has called that rule's change listener with the move and the undo flag.
C10_Notified ==
    (op \in {"execute", "undo"} /\ ~err) =>
        LET e == IF op = "execute" THEN Head(trace) ELSE last
        IN \E j \in 1..Len(notified) :
             notified[j] = [rule |-> <<e.level, e.id>>, move |-> e.move,
                            undo |-> (op = "undo")]

-----------------------------------------------------------------------------
(* Properties of the Sequencer *)

\* C7: the executes and undos with no move that have been made so far cancel
\* whenever they are equal in number, and N more executes than undos are a
\* full cycle: the index is the one after construction.
C7_RoundTrip ==
    /\ nexec = nundo => turn = turn0
    /\ nexec - nundo = Len(sequence) => turn = turn0

C7_Witness ==
    /\ Len(sequence) = 3
    /\ turn0 = 0
    /\ nexec = 2
    /\ nundo = 2
    /\ op = "undo"

TurnInRange == turn \in 0..(Len(sequence) - 1)

\* C8: the index is always in [0, N); an execute_move takes it to
\* (index + 1) mod N and an undo_move to (index - 1) mod N.
C8_Index ==
    /\ []TurnInRange
    /\ [][/\ nexec' = nexec + 1 => turn' = (turn + 1) % Len(sequence)
          /\ nundo' = nundo + 1 => turn' = (turn - 1) % Len(sequence)]_vars

\* more undos than executes from index 0
C8_Witness ==
    /\ turn0 = 0
    /\ nexec = 0
    /\ nundo = 1
    /\ Len(sequence) = 3
    /\ turn = 2

-----------------------------------------------------------------------------
(* Properties of pattern expansion *)

Destinations == {enumerated[i].new : i \in 1..Len(enumerated)}

FromFourFour ==
    /\ op = "enumerate"
    /\ board = ChessBoard
    /\ top_rules = {1}
    /\ coords[1] = <<4, 4>>

\* C9 (as stated): from (4,4) on the empty 8x8 board, unit steps, stops_on =
\* occupied, skips = false, enumerate exactly the 14 other cells of row 4 and
\* of column 4.
C9_Fourteen ==
    FromFourFour =>
        /\ Destinations = {c \in ChessBoard : (c[1] = 4) # (c[2] = 4)}
        /\ Len(enumerated) = 14

\* C9 (amended): they enumerate exactly 64 destinations, every cell of the
\* board once, (4,4) itself included.
C9_WholeBoard ==
    FromFourFour =>
        /\ Destinations = ChessBoard
        /\ Len(enumerated) = 64
        /\ \A i \in 1..Len(enumerated) : enumerated[i].old = <<4, 4>>

C9_Witness == FromFourFour /\ Len(enumerated) > 0

-----------------------------------------------------------------------------
(* Properties of the selection *)

\* the first index whose value for key k is the greatest of the list
FirstBest(k, dicts) ==
    CHOOSE i \in 1..Len(dicts) :
        /\ \A j \in 1..Len(dicts) : dicts[j][k] <= dicts[i][k]
        /\ \A j \in 1..(i - 1) : dicts[j][k] < dicts[i][k]

\* C6: max_by_key and dictionary_max return the first, in list order, of the
\* vectors that share the greatest value for the key.
C6_FirstOfTies ==
    op = "select" =>
        /\ current_max[1] = dictionaries[FirstBest(key, dictionaries)]
        /\ current_max[2] = dictionaries[FirstBest(key, dictionaries)]

\* two different vectors tie for the greatest value and the earlier is returned
C6_Witness ==
    /\ op = "select"
    /\ \E i, j \in 1..Len(dictionaries) :
          /\ i < j
          /\ dictionaries[i][key] = dictionaries[j][key]
          /\ dictionaries[i] # dictionaries[j]
          /\ \A n \in 1..Len(dictionaries) : dictionaries[n][key] <= dictionaries[i][key]
          /\ \A n \in 1..(i - 1) : dictionaries[n][key] < dictionaries[i][key]
          /\ current_max[1] = dictionaries[i]

\* the depth-1 case of the spec: with A to maximize the choice is {A:0.9, B:0.1}
ExampleChoice ==
    (op = "select" /\ dictionaries = Example /\ key = "A") =>
        current_max[1] = [A |-> 9, B |-> 1]

-----------------------------------------------------------------------------
(* Properties of the search *)

\* the player to move at a position: the player of the active Aggregator
PlayerToMove(s) == SumPlayer(s.sub_rule)

\* max-n by definition: every legal child evaluated to depth d - 1, the first
\* child greatest for the player to move is the value of the node
RECURSIVE RefMaxN(_, _)
RefMaxN(s, d) ==
    LET legal == SimpleTurn_get_legal_moves(s)
    IN IF d = 0 \/ legal = <<>>
       THEN SimpleTurn_get_utility(s)
       ELSE LET kids == [i \in 1..Len(legal) |->
                            RefMaxN(SimpleTurn_execute_move(s, legal[i]), d - 1)]
            IN kids[FirstBest(PlayerToMove(s), kids)]

StartPos == [coords |-> start.coords, top_rules |-> start.top_rules,
             turn |-> start.turn, sub_rule |-> start.sub_rule,
             notified |-> <<>>, raised |-> FALSE]

\* the node whose call has just returned: its position and its depth
NodePos == IF stack = <<>> THEN StartPos ELSE Pos
NodeDepth == search.depth - Len(stack)

Returned == op = "return" /\ ~err /\ search.width = 0

\* C2: a search of depth D >= 1 without pruning, from a position with legal
\* moves, returns the value of the child that is greatest for the player to move
\* at that position, every child being valued the same way for its own player
\* to move; so does every recursive call of the search.
C2_MaxN ==
    (Returned /\ NodeDepth >= 1 /\ SimpleTurn_get_legal_moves(NodePos) # <<>>) =>
        ret = RefMaxN(NodePos, NodeDepth)

\* a call of depth >= 1 has returned the child greatest for the player to move,
\* which is not the child greatest for the other player
C2_Witness ==
    /\ Returned
    /\ NodeDepth >= 1
    /\ LET legal == SimpleTurn_get_legal_moves(NodePos)
           kids == [i \in 1..Len(legal) |->
                       RefMaxN(SimpleTurn_execute_move(NodePos, legal[i]), NodeDepth - 1)]
       IN /\ Len(legal) >= 2
          /\ \E pl \in Players \ {PlayerToMove(NodePos)} :
                ret # kids[FirstBest(pl, kids)]
          /\ ret = kids[FirstBest(PlayerToMove(NodePos), kids)]

SearchOver == err \/ (stack = <<>> /\ ret # NoRet)

\* C3: in a search every undo is for the innermost move executed and not yet
\* undone, by the frame that executed it; a frame returns with none of its moves
\* pending; and when the search is over the turn index, the coordinates and the
\* registry are those of the start.
C3_Paired ==
    /\ op = "undo" =>
          /\ last.level # "unpaired"
          /\ last.move = last.undone
          /\ last.depth = Len(stack)
    /\ op = "return" => \A i \in 1..Len(trace) : trace[i].depth <= Len(stack)
    /\ SearchOver =>
          /\ trace = <<>>
          /\ turn = start.turn
          /\ coords = start.coords
          /\ top_rules = start.top_rules

\* the same, for the searches that no move's execution ends with an exception
C3_PairedNoRaise ==
    (\A p \in Pieces : kind[p] = "SimpleCapture") => C3_Paired

-----------------------------------------------------------------------------
(* Pruning by ranking *)

\* temp below every value random() can take: the ranking branch is always taken
AlwaysHeuristic == \A r \in Randoms : search.temp < r

\* the moves kept by ranking at position s: each move's key is the value for the
\* player to move of an unpruned search of depth k behind it; the width lowest
\* keys are kept, in ascending order, equal keys in enumeration order
RefBranches(s, w, k) ==
    LET legal == SimpleTurn_get_legal_moves(s)
        n == Len(legal)
        keyOf == [i \in 1..n |->
                    RefMaxN(SimpleTurn_execute_move(s, legal[i]), k)[PlayerToMove(s)]]
        rank == [i \in 1..n |->
                    1 + Cardinality({j \in 1..n : \/ keyOf[j] < keyOf[i]
                                                  \/ (keyOf[j] = keyOf[i] /\ j < i)})]
    IN IF w # 0 /\ w < n
       THEN [r \in 1..w |-> legal[CHOOSE i \in 1..n : rank[i] = r]]
       ELSE legal

\* the value of a search that always ranks, as a function of position and arguments
RECURSIVE RefPruned(_, _, _, _)
RefPruned(s, d, w, k) ==
    LET legal == RefBranches(s, w, k)
    IN IF d = 0 \/ legal = <<>>
       THEN SimpleTurn_get_utility(s)
       ELSE LET kids == [i \in 1..Len(legal) |->
                            RefPruned(SimpleTurn_execute_move(s, legal[i]), d - 1, w, 1)]
            IN kids[FirstBest(PlayerToMove(s), kids)]

\* the value the call that has just returned must have, from its caller's frame
RefReturned ==
    IF stack = <<>>
    THEN RefPruned(StartPos, search.depth, search.width, search.k)
    ELSE LET f == Head(stack)
         IN IF f.pc = "rank_wait"
            THEN RefMaxN(Pos, f.k)
            ELSE RefPruned(Pos, f.depth - 1, f.width, 1)

\* C11: when the ranking branch is always taken, the moves a node retains and
\* the value every call returns are functions of the position and of depth,
\* width and k alone, so two searches from identical state with the same
\* arguments retain the same branches at every node and return the same vector.
C11_Deterministic ==
    AlwaysHeuristic =>
        /\ (op = "return" /\ ~err) => ret = RefReturned
        /\ (op = "undo" /\ ~err /\ stack # <<>> /\ Head(stack).pc = "body"
              /\ Head(stack).utilities = <<>>) =>
              Head(stack).legal =
                  RefBranches(IF Len(stack) = 1 THEN StartPos ELSE Pos,
                              Head(stack).width, Head(stack).k)

\* a search of depth >= 1 that pruned at its root by ranking has returned
C11_Witness ==
    /\ AlwaysHeuristic
    /\ op = "return" /\ ~err /\ stack = <<>>
    /\ search.depth >= 1
    /\ search.width # 0
    /\ search.width < Len(SimpleTurn_get_legal_moves(StartPos))

-----------------------------------------------------------------------------
(* Properties of enumeration *)

-----------------------------------------------------------------------------
(* Positions without legal moves *)

SnapPos(n) == [coords |-> n.coords, top_rules |-> n.top_rules, turn |-> n.turn,
               sub_rule |-> n.sub_rule, notified |-> <<>>, raised |-> FALSE]

\* the call on top has executed no move yet: the position is the one it was made at
Fresh(f) == f.pc \in {"rank", "body"} /\ f.i = 1 /\ f.keys = <<>> /\ f.utilities = <<>>

-----------------------------------------------------------------------------
(* Properties of assembly *)

\* C14: when piece() returns without raising, every rule it linked finds each
\* capability its requirements() name on its sub-rule, defined there or
\* synthesized from the declared default
C14_Checked ==
    (op = "piece" /\ ~err) =>
        \A i \in 1..(Len(last.args) - 1) :
            requirements(rules[last.args[i]].class) \subseteq
                Provides(rules[last.args[i + 1]].class)

\* the rules that can be reached from r over sub_rule links
RECURSIVE Below(_, _)
Below(rs, S) ==
    LET T == S \cup {x \in DOMAIN rs : \E r \in S : InSeq(x, rs[r].sub_rule)}
    IN IF T = S THEN S ELSE Below(rs, T)

\* C15: for every rule object (rules linked by piece(), Aggregators over the
\* pieces), get_bottom_rule() returns, and returns a rule with no sub-rule;
\* get_piece() returns, starts with the rule itself, lists each further rule
\* after the rule that owns it, lists exactly the rules below the rule, and
\* ends with get_bottom_rule()
C15_Accessors ==
    \A r \in DOMAIN rules :
        LET bottom == get_bottom_rule(rules, r, CallDepth(rules))
            chain == get_piece(rules, r, CallDepth(rules))
        IN /\ bottom \in DOMAIN rules
           /\ rules[bottom].sub_rule = <<>>
           /\ ~InSeq(0, chain)
           /\ chain[1] = r
           /\ \A i \in 2..Len(chain) :
                 \E j \in 1..(i - 1) : InSeq(chain[i], rules[chain[j]].sub_rule)
           /\ Range(chain) = Below(rules, {r})
           /\ chain[Len(chain)] = bottom

\* an Aggregator over two different pieces, the first a chain of two rules
C15_Witness ==
    \E r \in DOMAIN rules :
        /\ rules[r].class = "RuleSum"
        /\ Len(rules[r].sub_rule) = 2
        /\ rules[r].sub_rule[1] # rules[r].sub_rule[2]
        /\ Len(get_piece(rules, rules[r].sub_rule[1], CallDepth(rules))) = 2

-----------------------------------------------------------------------------
(* Properties of the steps of execute_move and undo_move *)

InCall == op \in {"call", "step"}
Executing == InCall /\ last.method = "execute_move"
Undoing == InCall /\ last.method = "undo_move"
Finished == op = "step" /\ call = <<>>

\* the move of the running call as the capture decorator receives it
CaptureMove == last.move.sub_move.sub_move
Capturing == InCall /\ last.move # NoMove /\ Unpacks(CaptureMove)
Mover == CaptureMove.sub_rule
Dest == CaptureMove.sub_move.new
Origin == CaptureMove.sub_move.old
Captured == Range(CaptureMove.captures)

\* the running call has notified for rule, so far
Notified(rule) == \E i \in 1..Len(notified) : notified[i].rule = rule

\* the state the call started in
Before == [coords |-> last.before.coords, top_rules |-> last.before.top_rules,
           turn |-> last.before.turn, sub_rule |-> last.before.sub_rule,
           notified |-> <<>>, raised |-> FALSE]

\* a finished call leaves what the handler as a whole computes
CallAgrees ==
    Finished =>
        [PosNow EXCEPT !.raised = err] =
            IF last.method = "execute_move" THEN SimpleTurn_execute_move(Before, last.move)
            ELSE SimpleTurn_undo_move(Before, last.move)

\* C16: from the call of execute_move or undo_move with a move that captures,
\* through every statement to its return, the moving piece is never on the
\* destination while a piece of the capture list is active on that square
C16_NoCoOccupancy ==
    (Capturing /\ Captured # {}) =>
        ~(/\ coords[Mover] = Dest
          /\ \E q \in Captured : q \in top_rules /\ coords[q] = Dest)

\* the same for the moves of a piece that is itself in the registry: a piece
\* that was captured stays a sibling of its Aggregator and still moves, and
\* only its moves break C16
C16_ActiveMover ==
    (Capturing /\ Captured # {} /\ Mover \in top_rules) =>
        ~(/\ coords[Mover] = Dest
          /\ \E q \in Captured : q \in top_rules /\ coords[q] = Dest)

\* the sub-rule has begun, resp. completed, its part of the running call
SubBegun ==
    \/ coords[Mover] # last.before.coords[Mover]
    \/ Notified(<<"Tile", Mover>>)
    \/ Notified(<<"PatternRule", Mover>>)
SubDone ==
    /\ Notified(<<"PatternRule", Mover>>)
    /\ coords[Mover] = IF Executing THEN Dest ELSE Origin
OwnDone == \E r \in Pieces : Notified(<<"CaptureRule", r>>)

\* C17: in execute_move of the capture decorator the sub-rule changes the
\* position only when every captured piece is out of the registry, and the
\* decorator notifies only when both are done; in undo_move a captured piece
\* is back in the registry only when the sub-rule has undone, and the
\* decorator notifies only when every captured piece is back; a call that
\* returns has done all three
C17_Order ==
    Capturing =>
        /\ Executing =>
              /\ SubBegun => Captured \cap top_rules = {}
              /\ OwnDone => (SubDone /\ Captured \cap top_rules = {})
              /\ (Finished /\ ~err) => OwnDone
        /\ Undoing =>
              /\ (Captured \cap top_rules # {}) => SubDone
              /\ OwnDone => (SubDone /\ Captured \subseteq top_rules)
              /\ (Finished /\ ~err) => OwnDone
        /\ \A i \in 1..Len(notified) :
              notified[i].rule[1] = "CaptureRule" =>
                  /\ i = Len(notified)
                  /\ notified[i].move = CaptureMove
                  /\ notified[i].undo = Undoing

\* undo_move of a capture-bearing move has returned
C17_Witness ==
    /\ Capturing /\ Undoing /\ Captured # {}
    /\ Finished /\ ~err
    /\ OwnDone

\* something of the sub-move has been applied
Applied ==
    \/ notified # <<>>
    \/ coords # last.before.coords
    \/ top_rules # last.before.top_rules
    \/ err

Advanced ==
    /\ turn = PyMod(last.before.turn + 1, Len(sequence))
    /\ sub_rule = sequence[turn + 1]
Retreated ==
    /\ turn = PyMod(last.before.turn - 1, Len(sequence))
    /\ sub_rule = sequence[turn + 1]

\* C18: in execute_move of the Sequencer nothing of the sub-move is applied
\* before index and active sub-rule have advanced, and the sub-move moves and
\* notifies the piece of the Aggregator the move is tagged with; in undo_move
\* the index stays until the inverse of the sub-move is complete; a call that
\* returns has advanced, resp. retreated
C18_Sequencer ==
    /\ Executing =>
          /\ Applied => Advanced
          /\ Finished => Advanced
    /\ Undoing =>
          /\ (turn # last.before.turn /\ last.move # NoMove) =>
                (Capturing /\ OwnDone /\ SubDone)
          /\ (Finished /\ ~err) => Retreated
    /\ (InCall /\ last.move # NoMove) =>
          /\ InSeq(last.move.sub_move.rule, AllSubs(last.move.rule))
          /\ \A q \in Pieces :
                coords[q] # last.before.coords[q] => q = last.move.sub_move.rule
          /\ \A i \in 1..Len(notified) : notified[i].rule[2] = last.move.sub_move.rule

\* execute_move with a move tagged with an Aggregator that is not the newly
\* active one has returned
C18_Witness ==
    /\ Executing /\ Finished /\ ~err
    /\ last.move # NoMove
    /\ coords # last.before.coords
    /\ last.move.rule # sub_rule

-----------------------------------------------------------------------------
(* Properties of the expansion loop *)

\* the coordinates a chain of step hops reaches from the coordinates S, no
\* coordinate before the last one stopping
RECURSIVE Reached(_, _)
Reached(x, S) ==
    LET T == S \cup UNION {Range(x.step[c]) : c \in S \ x.stops}
    IN IF T = S THEN S ELSE Reached(x, T)

\* C19: the list generate_legal_moves returns has as destinations exactly the
\* coordinates that are not skipped and that a chain of step hops reaches from
\* the current coordinate without passing a stopping coordinate, each as a
\* move from the current coordinate; it is the list the expansion computes
\* as a whole
C19_Destinations ==
    expansion.pc = "done" =>
        /\ Destinations =
              Reached(expansion, Range(expansion.step[expansion.cur])) \ expansion.skips
        /\ \A i \in 1..Len(enumerated) : enumerated[i].old = expansion.cur
        /\ enumerated = ExpandWhile(expansion.cur, expansion.step, expansion.stops,
                                    expansion.skips, expansion.step[expansion.cur],
                                    <<>>, <<>>)

\* a finished expansion that listed a stopping coordinate, went through a
\* skipped one, and left out a coordinate that lies behind a stopping one
C19_Witness ==
    /\ expansion.pc = "done"
    /\ \E c \in expansion.stops : c \in Destinations
    /\ \E c \in expansion.skips \ expansion.stops :
          /\ InSeq(c, expansion.added)
          /\ Range(expansion.step[c]) \cap Destinations # {}
    /\ \E c \in expansion.stops :
          \E d \in Range(expansion.step[c]) :
             d \notin Destinations /\ d \notin expansion.skips

NoRepeat(s) == \A i, j \in 1..Len(s) : i # j => s[i] # s[j]

\* C20: the loop reaches the return with an empty frontier, whatever step,
\* does_stop_on and does_skip are; no coordinate has its neighbours appended
\* to a frontier twice and no destination is listed twice
C20_Terminates ==
    /\ <>(expansion.pc = "done" /\ expansion.edge = <<>>)
    /\ [](NoRepeat(expansion.added) /\ NoRepeat(expansion.legal))

\* a finished expansion whose steps led back to the origin and to a
\* coordinate already visited
C20_Witness ==
    /\ expansion.pc = "done"
    /\ InSeq(expansion.cur, expansion.checked)
    /\ ~NoRepeat(expansion.checked)
    /\ Len(expansion.added) >= 2

-----------------------------------------------------------------------------
(* Properties of attack detection *)

\* p has, among the moves it enumerates now, one whose capture list holds q
EnumeratesCaptureOf(p, q) ==
    LET legal == CaptureRule_get_legal_moves(Pos, p)
    IN \E i \in 1..Len(legal) :
          /\ Unpacks(legal[i])
          /\ \E j \in 1..Len(legal[i].captures) : legal[i].captures[j] = q

\* the same read off the board: p captures, q is an active piece of the other
\* player and stands on a square p's pattern reaches
StandsOnReached(p, q) ==
    /\ kind[p] = "SimpleCapture"
    /\ q \in top_rules /\ Owner(q) # Owner(p)
    /\ \E m \in Range(PatternRule_generate_legal_moves(Pos, p)) : m.new = coords[q]

\* C21: does_attack_piece(q) on p answers true exactly when a move p now
\* enumerates has q in its capture list; is_attacked() on p answers true
\* exactly when an active piece the radar of p matches attacks p; else false
C21_Attack ==
    /\ (op = "query" /\ last.query = "does_attack_piece") =>
          /\ last.result[2] = EnumeratesCaptureOf(last.id, last.result[1])
          /\ last.result[2] = StandsOnReached(last.id, last.result[1])
    /\ (op = "query" /\ last.query = "is_attacked") =>
          last.result[2] = (\E a \in top_rules :
                               /\ Owner(a) \in Radar(last.id)
                               /\ EnumeratesCaptureOf(a, last.id))

\* is_attacked answers false for a piece that only a captured piece reaches
C21_Witness ==
    /\ op = "query" /\ last.query = "is_attacked"
    /\ ~last.result[2]
    /\ last.id \in top_rules
    /\ \E a \in Pieces \ top_rules : EnumeratesCaptureOf(a, last.id)

-----------------------------------------------------------------------------
(* Properties of the Aggregator *)

\* the position of sibling r in the Aggregator a
SiblingIndex(a, r) == CHOOSE j \in 1..Len(AllSubs(a)) : AllSubs(a)[j] = r

\* the sub-moves of the moves of list tagged with r, in order
TaggedWith(list, r) ==
    LET sel == SelectSeq(list, LAMBDA m : m.rule = r)
    IN [i \in 1..Len(sel) |-> sel[i].sub_move]

\* the entry of the execute_move or undo_move just made, and its move as the
\* Aggregator receives it
OpEntry == IF op = "execute" THEN Head(trace) ELSE last
SumMove == IF OpEntry.level = "SimpleTurn" THEN OpEntry.move.sub_move ELSE OpEntry.move
ThroughSum ==
    /\ op \in {"execute", "undo"}
    /\ \/ OpEntry.level = "RuleSum"
       \/ OpEntry.level = "SimpleTurn" /\ OpEntry.move # NoMove

\* C22: get_legal_moves of an Aggregator lists, sibling after sibling in
\* sibling order, the legal moves of each sibling in their order, each tagged
\* with that sibling; execute_move and undo_move of (r, sub_move) leave the
\* coordinates of every piece other than r as they were, and put r where
\* sub_move says
C22_Dispatch ==
    /\ (op = "query" /\ last.query = "get_legal_moves" /\ last.level = "RuleSum") =>
          LET res == last.result
              subs == AllSubs(last.id)
          IN /\ \A i \in 1..Len(res) : InSeq(res[i].rule, subs)
             /\ \A i, j \in 1..Len(res) :
                   i < j => SiblingIndex(last.id, res[i].rule) <= SiblingIndex(last.id, res[j].rule)
             /\ \A r \in Range(subs) :
                   TaggedWith(res, r) = CaptureRule_get_legal_moves(Pos, r)
    /\ ThroughSum =>
          /\ \A q \in Pieces \ {SumMove.rule} : coords[q] = OpEntry.before.coords[q]
          /\ (~err /\ op = "execute") => coords[SumMove.rule] = SumMove.sub_move.sub_move.new
          /\ (~err /\ op = "undo") => coords[SumMove.rule] = SumMove.sub_move.sub_move.old

\* a move of A's second piece was executed through the Aggregator of A
C22_Witness ==
    /\ ThroughSum /\ op = "execute" /\ ~err
    /\ SumMove.rule = 2
    /\ coords[2] # OpEntry.before.coords[2]

-----------------------------------------------------------------------------
(* Bounds of the search *)

\* the child moves the call of frame f has executed in its main loop so far
ChildrenExecuted(f) ==
    IF f.pc = "loop_wait" THEN f.i
    ELSE IF f.pc = "body" THEN f.i - 1
    ELSE 0

\* the calls that got the width of the search: the outermost call and the
\* calls of the main loops (a ranking search is called without a width)
WidthGiven(f) == f.width = search.width

\* C23: no call of max_n that was given the width w, w = 0 included, has
\* executed more than w child moves in its main loop
C23_WidthBound ==
    \A n \in 1..Len(stack) :
        WidthGiven(stack[n]) => ChildrenExecuted(stack[n]) <= stack[n].width

\* the same for the widths above 0 only
C23_PositiveWidth ==
    search.width > 0 =>
        \A n \in 1..Len(stack) :
            WidthGiven(stack[n]) => ChildrenExecuted(stack[n]) <= stack[n].width

\* C24: while a search started with depth D runs, and when it is over, the
\* number of moves executed and not yet undone is at most D, whatever width,
\* temp and k are
C24_DepthBound == search # NoRet => Len(trace) <= search.depth

\* the same for the searches that never rank moves (no width given)
C24_Unpruned == (search # NoRet /\ search.width = 0) => Len(trace) <= search.depth

\* the searches under a scheduler that lets a call in progress take its next step
SpecSearchesFair == SpecSearches /\ WF_vars(NextSearches)

HasReturned == ~err /\ stack = <<>> /\ ret # NoRet

\* C25: every search, whatever depth, width, temp and k it is given, eventually
\* returns a utility vector
C25_Terminates == <>HasReturned

\* every search eventually ends, by a return or by an exception
C25_Ends == <>(err \/ HasReturned)

\* in a game of SimpleCapture pieces only, every search eventually returns
C25_ReturnsNoRaise == (\A p \in Pieces : kind[p] = "SimpleCapture") => <>HasReturned

-----------------------------------------------------------------------------
(* Properties of n_max against max_n *)

NMaxValued == op \in {"up", "done"} /\ ~err

\* C26: every value n_max assigns to a node, the root's included, is the value
\* max_n without pruning returns there for the depth that is left, the first of
\* equal children winning in both; when n_max returns the game is at the root
\* position, the depth counter is 0 and move_tree and utility_tree hold one
\* list each
C26_SameAsMaxN ==
    /\ NMaxValued => last.value = RefMaxN(SnapPos(last.node), search.depth - last.depth)
    /\ (op = "done" /\ ~err) =>
          /\ ret = RefMaxN(StartPos, search.depth)
          /\ Snapshot = start
          /\ trace = <<>>
          /\ last.depth = 0
          /\ last.move_tree = 1
          /\ last.utility_tree = 1

\* n_max has returned from a search of full depth whose root has children of
\* equal value for the player to move
C26_Witness ==
    /\ op = "done"
    /\ ~err
    /\ search.depth = MaxDepth
    /\ LET legal == Game_legal_moves(StartPos)
           kids == [i \in 1..Len(legal) |->
                       RefMaxN(Game_make_move(StartPos, legal[i]), search.depth - 1)]
           k == GameState_player_to_move(StartPos)
       IN /\ \E i, j \in 1..Len(legal) : i < j /\ kids[i][k] = kids[j][k]
          /\ ret = kids[FirstBest(k, kids)]

-----------------------------------------------------------------------------
(* Game (rule.py): compound moves (new sub_rule, old sub_rule, pairs), each
   pair a rule and a move of that rule; the rules of the pairs are the
   pieces' pattern rules *)

MaxPairs == 2

ExecutePair(s, pr) == CoordinateRule_execute_move(s, pr.rule, pr.sub_move)
UndoPair(s, pr) == CoordinateRule_undo_move(s, pr.rule, pr.sub_move)

\* the pairs whose move is legal for its rule in s
PairsAt(s) ==
    UNION {{[rule |-> p, sub_move |-> m] :
               m \in Range(PatternRule_generate_legal_moves(s, p))} : p \in Pieces}

\* the lists of up to n pairs, each legal after the pairs before it
RECURSIVE PairLists(_, _)
PairLists(s, n) ==
    IF n = 0 THEN {<<>>}
    ELSE {<<>>} \cup
         UNION {{<<pr>> \o rest : rest \in PairLists(ExecutePair(s, pr), n - 1)} :
                  pr \in PairsAt(s)}

\* for rule, sub_move in move[2]: rule.execute_move(sub_move)
RECURSIVE Game_execute_move_for(_, _, _)
Game_execute_move_for(s, pairs, i) ==
    IF i > Len(pairs) \/ s.raised THEN s
    ELSE Game_execute_move_for(ExecutePair(s, pairs[i]), pairs, i + 1)

Game_execute_move(s, move) ==
    Game_execute_move_for([s EXCEPT !.sub_rule = move[1]], move[3], 1)

\* for rule, sub_move in move[2]: rule.undo_move(sub_move)
RECURSIVE Game_undo_move_for(_, _, _)
Game_undo_move_for(s, pairs, i) ==
    IF i > Len(pairs) \/ s.raised THEN s
    ELSE Game_undo_move_for(UndoPair(s, pairs[i]), pairs, i + 1)

Game_undo_move(s, move) ==
    LET s1 == Game_undo_move_for(s, move[3], 1)
    IN IF s1.raised THEN s1 ELSE [s1 EXCEPT !.sub_rule = move[2]]

InitGameRule ==
    /\ \E b \in {GameBoard, GapBoard} : InitGameOn(b)
    /\ PlayIdle /\ MoreIdle /\ PatternIdle /\ MaxIdle /\ SearchIdle
    /\ op = "init"

\* game.execute_move(move) for a compound move made for the present state,
\* when every move executed before has been undone
GameExecute ==
    /\ ~err
    /\ trace = <<>>
    /\ \E new \in Range(sequence), pairs \in PairLists(Pos, MaxPairs) :
          LET move == <<new, sub_rule, pairs>>
          IN /\ Set(Game_execute_move(Pos, move))
             /\ trace' = <<[level |-> "Game", id |-> 0, move |-> move,
                            before |-> Snapshot]>> \o trace
    /\ last' = NoEntry
    /\ op' = "execute"
    /\ UNCHANGED <<board, sequence, kind, moreVars, turnVars, patternVars, maxVars, searchVars>>

\* game.undo_move(move) for the innermost compound move not yet undone
GameUndo ==
    /\ ~err
    /\ trace # <<>>
    /\ LET e == Head(trace)
       IN /\ Set(Game_undo_move(Pos, e.move))
          /\ last' = e
    /\ trace' = Tail(trace)
    /\ op' = "undo"
    /\ UNCHANGED <<board, sequence, kind, moreVars, turnVars, patternVars, maxVars, searchVars>>

NextGameRule == GameExecute \/ GameUndo

SpecGameRule == InitGameRule /\ [][NextGameRule]_vars

\* a step that undoes the compound move executed by the step before it
GameUndoes ==
    /\ op = "execute" /\ ~err /\ trace # <<>> /\ Head(trace).level = "Game"
    /\ op' = "undo" /\ ~err'

\* the pieces the pairs of a compound move act on
Touched(move) == {move[3][i].rule : i \in 1..Len(move[3])}

\* C27: Game.execute_move followed by Game.undo_move of the same compound move
\* restores the active sub-rule to the move's old sub-rule and every coordinate
\* to what it was before the execute, whatever the list of pairs
C27_CompoundUndo ==
    [][GameUndoes =>
          /\ sub_rule' = Head(trace).move[2]
          /\ coords' = Head(trace).before.coords]_vars

\* the same for the moves whose pairs act on different pieces
C27_DifferentPieces ==
    [][(GameUndoes /\ Cardinality(Touched(Head(trace).move)) = Len(Head(trace).move[3])) =>
          /\ sub_rule' = Head(trace).move[2]
          /\ coords' = Head(trace).before.coords]_vars

-----------------------------------------------------------------------------
(* Play with undo_move calls that no execute_move matches *)

\* the rule and move of an entry of trace, or of a legal move never executed
Unmatched ==
    {<<trace[i].level, trace[i].id, trace[i].move>> : i \in 2..Len(trace)}
      \cup UNION {{<<r[1], r[2], m>> : m \in Range(LegalMoves(Pos, r[1], r[2]))} : r \in Rules}

\* r.undo_move(m) when m is not the move r executed last
UndoUnpaired ==
    /\ ~err
    /\ \E c \in Unmatched :
          /\ trace # <<>> => <<Head(trace).level, Head(trace).id, Head(trace).move>> # c
          /\ Set(UndoMove(Pos, c[1], c[2], c[3]))
          /\ last' = [level |-> "unpaired", id |-> c[2], rule |-> c[1], move |-> c[3],
                      before |-> Snapshot]
    /\ trace' = trace
    /\ op' = "undo"
    /\ UNCHANGED <<board, sequence, kind, moreVars, turnVars, patternVars, maxVars, searchVars>>

NextUnpaired == Execute \/ Undo \/ UndoUnpaired

SpecUnpaired == Init /\ [][NextUnpaired]_vars

\* C28: an undo_move that no execute_move matches, or that is out of order,
\* fails and leaves coordinates, turn index and registry as they were
C28_PairingChecked ==
    (op = "undo" /\ last.level = "unpaired") =>
        /\ err
        /\ coords = last.before.coords
        /\ turn = last.before.turn
        /\ top_rules = last.before.top_rules

\* the only unmatched undo that fails is that of a NoCapture piece's move,
\* which no undo_move can unpack
C28_FailsOnlyUnpacking ==
    (op = "undo" /\ last.level = "unpaired" /\ err) =>
        \E p \in Pieces : kind[p] = "NoCapture"

-----------------------------------------------------------------------------
(* Properties of the Sequencer's active sub-rule *)

\* C29: in every state of a Sequencer, the one its construction leaves
\* included, the active sub-rule is the element of the sequence at the turn index
C29_ActiveMatchesIndex == sub_rule = sequence[turn + 1]

\* the same once execute_move or undo_move has been called
C29_AfterMove == op # "init" => sub_rule = sequence[turn + 1]

-----------------------------------------------------------------------------
(* Properties of the ranking step *)

\* the call on top has just ranked its moves and cut the list to width, and
\* the moves are those of the sub-rule that is active again
Ranked ==
    /\ Running
    /\ Head(stack).pc = "body"
    /\ Head(stack).keys # <<>>
    /\ Head(stack).i = 1
    /\ op = "undo"
    /\ \A j \in 1..Len(Head(stack).legal) : Head(stack).legal[j].rule = sub_rule

\* positions in get_legal_moves() of the moves the ranking has retained
Kept == {i \in 1..Len(Head(stack).keys) :
            InSeq(SimpleTurn_get_legal_moves(Pos)[i], Head(stack).legal)}

\* C30: after the ranking step of a node, a move whose depth-k value for the
\* node's player is the greatest of all is among the moves retained
C30_KeepsBest ==
    Ranked =>
        \E i \in Kept : \A j \in 1..Len(Head(stack).keys) :
            Head(stack).keys[j] <= Head(stack).keys[i]

\* the moves retained are the width lowest-ranked ones: no move left out has a
\* smaller value than a move retained
C30_KeepsLowest ==
    Ranked =>
        /\ Cardinality(Kept) = Head(stack).width
        /\ \A i \in Kept : \A j \in (1..Len(Head(stack).keys)) \ Kept :
              Head(stack).keys[i] <= Head(stack).keys[j]

-----------------------------------------------------------------------------
(* Properties of captured pieces *)

\* the root rule has just enumerated its legal moves
RootEnumerated ==
    op = "query" /\ last.query = "get_legal_moves" /\ last.level = "SimpleTurn"

\* the captures of a root move, empty when the piece's move carries none
RootCaptures(m) == pieces_to_capture(m.sub_move.sub_move)

\* C31: while a piece is captured, no move the root rule enumerates moves it,
\* no capture list enumerated holds it, and is_attacked does not count it as
\* an attacker
C31_Inert ==
    /\ RootEnumerated =>
          \A q \in Pieces \ top_rules : \A i \in 1..Len(last.result) :
              /\ last.result[i].sub_move.rule # q
              /\ ~InSeq(q, RootCaptures(last.result[i]))
    /\ (op = "query" /\ last.query = "is_attacked" /\ last.result[2]) =>
          \E a \in top_rules : Owner(a) \in Radar(last.id) /\ EnumeratesCaptureOf(a, last.id)

\* the part that rests on the registry: capture lists and attackers
C31_NotTargetNorAttacker ==
    /\ RootEnumerated =>
          \A q \in Pieces \ top_rules : \A i \in 1..Len(last.result) :
              ~InSeq(q, RootCaptures(last.result[i]))
    /\ (op = "query" /\ last.query = "is_attacked" /\ last.result[2]) =>
          \E a \in top_rules : Owner(a) \in Radar(last.id) /\ EnumeratesCaptureOf(a, last.id)

-----------------------------------------------------------------------------
(* Properties of the players of a piece *)

\* C32: after piece(r0, ..., rn) every rule of the chain, the leaf rn
\* included, has the player of r0, and so has the rule get_bottom_rule()
\* returns for r0
C32_PlayerPropagated ==
    op = "piece" =>
        LET args == last.args
            player == rules[args[1]].player
        IN /\ \A i \in 1..Len(args) : rules[args[i]].player = player
           /\ rules[get_bottom_rule(rules, args[1], CallDepth(rules))].player = player

\* the same for the rules piece() assigns to: all but the last argument
C32_AllButLeaf ==
    op = "piece" =>
        LET args == last.args
        IN \A i \in 1..(Len(args) - 1) : rules[args[i]].player = rules[args[1]].player

-----------------------------------------------------------------------------
(* Evaluator.explore (evaluator.py) on the game of the search, with
   evaluate(game) the game's utility and no width given.  The parameter game
   holds what the caller passed in that place: the game, or a number *)

TheGame == [object |-> "game"]
Number(n) == [number |-> n]
IsGame(g) == "object" \in DOMAIN g

\* game.get_player(): the player to move
get_player(s) == max_n_player(s)

\* self.evaluate(game)
evaluate(s) == SimpleTurn_get_utility(s)

ExploreFrame(game, depth, width, temp, k) ==
    [pc |-> "explore", game |-> game, depth |-> depth, width |-> width, temp |-> temp,
     k |-> k, player |-> "", legal |-> <<>>, i |-> 1, utilities |-> <<>>]

\* if 0 <= width < len(legal)
ExplorePrunes(f, legal) == 0 <= f.width /\ f.width < Len(legal)

\* explore(game, depth) with width, temp and k left at -1, 1 and 1
InitExplore ==
    /\ \E b \in SearchBoards : InitGameOn(b)
    /\ PlayIdle /\ MoreIdle /\ PatternIdle /\ MaxIdle
    /\ search \in [depth : 0..MaxDepth, width : {0 - 1}, temp : {10}, k : {1}]
    /\ stack = <<ExploreFrame(TheGame, search.depth, search.width, search.temp, search.k)>>
    /\ ret = NoRet
    /\ start = Snapshot
    /\ op = "init"

\* player = game.get_player(); legal = game.get_legal_moves(): a number has
\* neither method.  (No width is given: the pruning branch is not entered.)
ExploreEnter ==
    /\ Running
    /\ LET f == Head(stack)
           legal == SimpleTurn_get_legal_moves(Pos)
       IN /\ f.pc = "explore"
          /\ IF ~IsGame(f.game)
             THEN /\ err' = TRUE
                  /\ UNCHANGED stack
             ELSE /\ ~ExplorePrunes(f, legal)
                  /\ err' = err
                  /\ stack' = <<[f EXCEPT !.pc = "body", !.player = get_player(Pos),
                                          !.legal = legal]>> \o Tail(stack)
    /\ op' = "enter"
    /\ UNCHANGED <<turn, sub_rule, coords, top_rules, notified, playVars, ret>>
    /\ Idle

\* if depth == 0 or not legal: return self.evaluate(game)
ExploreEvaluate ==
    /\ Running
    /\ LET f == Head(stack)
       IN /\ "game" \in DOMAIN f
          /\ f.pc = "body"
          /\ IsLeaf(f)
    /\ ret' = evaluate(Pos)
    /\ stack' = Tail(stack)
    /\ op' = "return"
    /\ UNCHANGED <<gameVars, moreVars, playVars>>
    /\ Idle

\* the for loop: game.execute_move(move) and the call
\* self.explore(depth - 1, width, temp), whose arguments land on game, depth
\* and width; then the append and game.undo_move(move); after the last move
\* return max_by_key(player, utilities)
ExploreLoop ==
    /\ Running
    /\ LET f == Head(stack)
       IN /\ "game" \in DOMAIN f
          /\ f.pc \in {"body", "loop_wait"}
          /\ ~IsLeaf(f)
          /\ IF f.pc = "body" /\ f.i <= Len(f.legal)
             THEN LET e == SimpleTurn_execute_move(Pos, f.legal[f.i])
                  IN /\ SearchExecute(f.legal[f.i])
                     /\ stack' = IF e.raised THEN stack
                                 ELSE <<ExploreFrame(Number(f.depth - 1), f.width, f.temp, 10, 1),
                                        [f EXCEPT !.pc = "loop_wait"]>> \o Tail(stack)
                     /\ UNCHANGED ret
             ELSE IF f.pc = "loop_wait"
             THEN LET u == SimpleTurn_undo_move(Pos, f.legal[f.i])
                  IN /\ ret # NoRet
                     /\ SearchUndo(f.legal[f.i])
                     /\ stack' = IF u.raised THEN stack
                                 ELSE <<[f EXCEPT !.pc = "body", !.i = @ + 1,
                                           !.utilities = Append(@, ret)]>> \o Tail(stack)
                     /\ ret' = NoRet
             ELSE /\ ret' = max_by_key(f.player, f.utilities)
                  /\ stack' = Tail(stack)
                  /\ op' = "return"
                  /\ UNCHANGED <<turn, sub_rule, coords, top_rules, notified, err, playVars>>
    /\ Idle

NextExplore == ExploreEnter \/ ExploreEvaluate \/ ExploreLoop

SpecExplore == InitExplore /\ [][NextExplore]_vars

\* C33: explore(game, D) with no width given ends without an error and
\* returns what max_n(D) returns from the same position
C33_ExploreAgrees ==
    /\ ~err
    /\ stack = <<>> => ret = RefMaxN(StartPos, search.depth)

\* the same for the searches that stop at the root: depth 0, or no legal move
C33_LeafAgrees ==
    (search.depth = 0 \/ SimpleTurn_get_legal_moves(StartPos) = <<>>) =>
        /\ ~err
        /\ stack = <<>> => ret = RefMaxN(StartPos, search.depth)

====
